---- MODULE Spec2Model ----
(***************************************************************************)
(* A model of the conversation engine (agent/agent.py: Agent.handle_item   *)
(* and Agent.run_conversation), of the stop flag its host polls            *)
(* (gradio_app.py), of the action normalisation of handle_item and of the  *)
(* Session Driver (computers/docker_computer.py).                          *)
(*                                                                         *)
(* Spec      one submission of run_conversation against a remote model     *)
(*           whose responses are drawn from a bounded set, with the host's *)
(*           stop_conversation running concurrently.                       *)
(* NormSpec  the parameter extraction of handle_item, applied to an action *)
(*           request drawn from a bounded set of raw requests.             *)
(* DriverSpec one operation of DockerComputer, drawn from a bounded set of *)
(*           calls, translated into the commands it sends to the target.   *)
(* PortSpec  DockerComputer._find_available_port, run by two drivers that  *)
(*           are constructed concurrently on one machine.                  *)
(***************************************************************************)
EXTENDS Integers, Sequences, FiniteSets, TLC

VARIABLES
    \* ---- Agent / run_conversation (agent.py) ----
    pc,                     \* position of the generator run_conversation
    items,                  \* the local list `items` (pending input items)
    continue_conversation,  \* the local flag of the while loop
    last_response_id,       \* self.last_response_id
    response,               \* response.output of the exchange being processed
    idx,                    \* position of `for item in response.output`
    environment,            \* self.computer.environment
    \* ---- host (gradio_app.py) ----
    stop_requested,         \* the global stop_requested
    processing,             \* the global processing
    stopRaisedAt,           \* where run_conversation stood when stop was first requested
    \* ---- history (what the engine did, in order) ----
    requests,               \* every client.responses.create call of the submission
    events,                 \* every value run_conversation yielded
    driverLog,              \* every Session Driver operation invoked
    consulted,              \* every acknowledge_safety_check_callback call
    urlChecks,              \* every check_blocklisted_url call
    stopPolls,              \* every should_stop_callback call, with its position
    failure,                \* the exception that reached the handler of line 325
    \* ---- normalisation alone (NormSpec) ----
    action,                 \* a raw action request
    normalized,             \* what the extraction of handle_item made of it
    \* ---- DockerComputer, one operation (DriverSpec) ----
    driverCall,             \* the operation invoked and its arguments
    commands,               \* every command handed to _exec, in order
    \* ---- DockerComputer._find_available_port (PortSpec) ----
    inUse,                  \* the ports something listens on
    portPc,                 \* per driver: position in _find_available_port
    port,                   \* per driver: the local `port`
    attempt,                \* per driver: iterations of the for loop begun
    probes,                 \* per driver: every connect_ex made, with its outcome
    vnc_port,               \* per driver: self.vnc_port
    \* ---- DockerComputer as a context manager (LifecycleSpec) ----
    shutdown_on_exit,       \* self.shutdown_on_exit
    container_started_by_us, \* self.container_started_by_us
    container,              \* the running target environment and who started it
    generation,             \* how many times the environment has been started
    lifePc,                 \* position in __enter__ / the with-block / __exit__
    polls,                  \* health polls made by the current _start_container
    lastStatus,             \* what the last health poll reported
    scopes,                 \* with-blocks begun
    firstFound,             \* the environment found running at the first entry
    lifeLog,                \* launches, entries, operations and teardowns, in order
    \* ---- the host's handlers as threads (SessionSpec) ----
    chat,                   \* per chat_with_agent invocation: position and locals
    turns,                  \* every client.responses.create call of the agent
    stopper,                \* the stop_conversation invocation: position, what it saw
    lastGood,               \* handle of the latest successful exchange since reset
    resetSeen               \* the invocations begun before reset_chat_history ran

engineVars == <<pc, items, continue_conversation, last_response_id, response,
                idx, environment>>
hostVars == <<stop_requested, processing, stopRaisedAt>>
historyVars == <<requests, events, driverLog, consulted, urlChecks, stopPolls,
                 failure>>
normVars == <<action, normalized>>
driverVars == <<driverCall, commands>>
portVars == <<inUse, portPc, port, attempt, probes, vnc_port>>
lifeVars == <<shutdown_on_exit, container_started_by_us, container, generation,
              lifePc, polls, lastStatus, scopes, firstFound, lifeLog>>
sessionVars == <<chat, turns, stopper, lastGood, resetSeen>>
vars == <<engineVars, hostVars, historyVars, normVars, driverVars, portVars,
          lifeVars, sessionVars>>

\* ------------------------------------------------------------------ bounds

\* Most output items the remote model emits during one submission, over all
\* its responses; once it has emitted them it answers with an empty output.
MaxItems == 3

\* Most points of a drag path, largest vertical scroll distance, most
\* characters of a typed text and most keys of a chord a driver call carries.
MaxPath == 3

MaxScroll == 3

MaxText == 3

MaxKeys == 2

\* Most probes that raise instead of returning, over both selections, and
\* most ports of the probed range nothing listens on.
MaxProbeErrors == 1

MaxFree == 2

\* ----------------------------------------------------------------- helpers

Last(s) == s[Len(s)]

Range(s) == {s[i] : i \in 1..Len(s)}

\* Python's hasattr(obj, name): a raw object is a function from the names of
\* the attributes it carries to their values.
HasAttr(obj, name) == name \in DOMAIN obj

\* Python's None for self.last_response_id, and the handle of the n-th exchange.
None == <<>>

ResponseId(n) == <<"resp", n>>

\* ------------------------------------------------- handle_item: extraction

\* agent.py 179-180, 187: the default duration of a wait.
DefaultWaitMs == 1000

\* The precedence the specification's table gives: direct ms, nested
\* params.ms, direct time, nested params.time.
WaitMs_DirectFirst(a) ==
    IF HasAttr(a, "ms") THEN a.ms
    ELSE IF HasAttr(a, "params") /\ HasAttr(a.params, "ms") THEN a.params.ms
    ELSE IF HasAttr(a, "time") THEN a.time
    ELSE IF HasAttr(a, "params") /\ HasAttr(a.params, "time") THEN a.params.time
    ELSE DefaultWaitMs

\* A chain that read ms only.
WaitMs_MsOnly(a) ==
    IF HasAttr(a, "params") /\ HasAttr(a.params, "ms") THEN a.params.ms
    ELSE IF HasAttr(a, "ms") THEN a.ms
    ELSE DefaultWaitMs

\* agent.py 170-180: the if/elif chain of the wait branch.
WaitMs(a) ==
    IF HasAttr(a, "params") /\ HasAttr(a.params, "ms") THEN a.params.ms
    ELSE IF HasAttr(a, "ms") THEN a.ms
    ELSE IF HasAttr(a, "params") /\ HasAttr(a.params, "time") THEN a.params.time
    ELSE IF HasAttr(a, "time") THEN a.time
    ELSE DefaultWaitMs

\* isinstance(keys, list): a raw keys value is tagged with its Python type.
IsList(v) == v.kind = "list"

\* agent.py 157-158: the first point of path_data without x or y, 0 if none.
FirstBadPoint(path) ==
    IF \E i \in 1..Len(path) : ~(HasAttr(path[i], "x") /\ HasAttr(path[i], "y"))
    THEN CHOOSE i \in 1..Len(path) :
            /\ ~(HasAttr(path[i], "x") /\ HasAttr(path[i], "y"))
            /\ \A j \in 1..(i - 1) : HasAttr(path[j], "x") /\ HasAttr(path[j], "y")
    ELSE 0

\* The attribute whose read raises AttributeError, in the order the code reads.
MissingAttr(obj, names) ==
    LET missing == {i \in 1..Len(names) : ~HasAttr(obj, names[i])}
    IN  names[CHOOSE i \in missing : \A j \in missing : i <= j]

\* agent.py 76-203: the exception the extraction raises, <<>> when it raises none.
ExtractError(a) ==
    LET t == a.type IN
    CASE t = "click" ->
           IF HasAttr(a, "x") /\ HasAttr(a, "y") THEN <<>>
           ELSE <<"Could not extract coordinates for click action">>
      [] t = "type" ->
           IF HasAttr(a, "text") THEN <<>>
           ELSE <<"Could not extract text for type action">>
      [] t = "keypress" ->
           IF HasAttr(a, "keys") THEN <<>>
           ELSE <<"Could not extract keys for keypress action">>
      [] t = "scroll" ->
           IF ~(HasAttr(a, "scroll_x") /\ HasAttr(a, "scroll_y"))
           THEN <<"Could not extract scroll parameters">>
           ELSE IF ~(HasAttr(a, "x") /\ HasAttr(a, "y"))
           THEN <<"object has no attribute ", MissingAttr(a, <<"x", "y">>)>>
           ELSE <<>>
      [] t = "double_click" ->
           IF HasAttr(a, "x") /\ HasAttr(a, "y") THEN <<>>
           ELSE <<"Could not extract coordinates for double_click action">>
      [] t = "drag" ->
           IF ~HasAttr(a, "path") \/ a.path = <<>>
           THEN <<"Could not extract path for drag action">>
           ELSE IF FirstBadPoint(a.path) # 0
           THEN <<"object has no attribute ",
                  MissingAttr(a.path[FirstBadPoint(a.path)], <<"x", "y">>)>>
           ELSE <<>>
      [] t = "wait" -> <<>>
      [] t = "screenshot" -> <<>>
      [] OTHER -> <<"Unknown action type: ", t>>

\* agent.py 76-191: the params dictionary, for a request that raises nothing.
ExtractParams(a) ==
    LET t == a.type IN
    CASE t = "click" ->
           [x |-> a.x, y |-> a.y,
            button |-> IF HasAttr(a, "button") THEN a.button ELSE "left"]
      [] t = "type" -> [text |-> a.text]
      [] t = "keypress" ->
           [keys |-> IF IsList(a.keys) THEN a.keys.value ELSE <<a.keys.value>>]
      [] t = "scroll" ->
           [x |-> a.x, y |-> a.y, scroll_x |-> a.scroll_x, scroll_y |-> a.scroll_y]
      [] t = "double_click" -> [x |-> a.x, y |-> a.y]
      [] t = "drag" ->
           [path |-> [i \in 1..Len(a.path) |-> [x |-> a.path[i].x, y |-> a.path[i].y]]]
      [] t = "wait" -> [ms |-> WaitMs(a)]
      [] t = "screenshot" -> <<>>

\* ------------------------------------------------------- the remote model

\* Raw action requests the remote model emits in Spec: a valid click, a
\* click without y, and a kind outside the vocabulary.
ClickAction == [type |-> "click", x |-> 5, y |-> 7]

ClickWithoutY == [type |-> "click", x |-> 5]

MoveAction == [type |-> "move", x |-> 5, y |-> 7]

EngineActions == {ClickAction, ClickWithoutY, MoveAction}

\* The pending acknowledgements an action request carries.
SafetyChecks == <<[message |-> "m1"], [message |-> "m2"]>>

\* Output items: assistant text, reasoning, action request (its call_id is
\* stamped when the response arrives).
AssistantItem == [type |-> "message", role |-> "assistant",
                  content |-> <<[text |-> "hello"]>>]

ReasoningItem == [type |-> "reasoning", summary |-> <<[text |-> "think"]>>]

ComputerCall(a) == [type |-> "computer_call", call_id |-> <<>>, action |-> a,
                    pending_safety_checks |-> SafetyChecks]

OutputItems == {AssistantItem, ReasoningItem} \cup {ComputerCall(a) : a \in EngineActions}

\* response.output of at most n items: the empty output set included.
Responses(n) == UNION {[1..k -> OutputItems] : k \in 0..n}

IsCall(item) == item.type = "computer_call"

\* The correlation id of the i-th item of the n-th exchange.
CallId(n, i) == <<"call", n, i>>

Stamp(resp, n) ==
    [i \in 1..Len(resp) |->
        IF IsCall(resp[i]) THEN [resp[i] EXCEPT !.call_id = CallId(n, i)] ELSE resp[i]]

\* The exit status of a command run on the target, and the output of a
\* successful capture.
ExitCodes == {0, 1}

Png == "iVBORw0KGgo"

\* An _exec without the except clause: CalledProcessError leaves it.
ExecResult_Unhandled(output, exit) ==
    [raised |-> exit # 0, output |-> IF exit = 0 THEN output ELSE ""]

\* docker_computer.py 207-214: _exec returns the command's output, and ""
\* when check_output raised CalledProcessError for a non-zero exit.
ExecResult(output, exit) ==
    [raised |-> FALSE, output |-> IF exit = 0 THEN output ELSE ""]

\* docker_computer.py 216-226: what screenshot() can give or raise.
Captures == {ExecResult(Png, exit) : exit \in ExitCodes}

CommandError == <<"Command returned non-zero exit status">>

\* What the driver's screenshot returns (empty when the capture failed) and
\* the addresses a browser driver can be at.
Screenshots == {c.output : c \in {r \in Captures : ~r.raised}}

\* The exceptions that leave a driver operation.
DriverErrors ==
    {<<"driver operation failed">>} \cup {CommandError : c \in {r \in Captures : r.raised}}

Urls == {"https://ok.example", "https://blocked.example"}

\* --------------------------------------------------------- items and events

UserItem(text) == [role |-> "user", content |-> text]

\* agent.py 308
StopItem == UserItem("Operation stopped by user. No further actions required until user input.")

\* agent.py 232-240, 245: the call_output dictionary.
CallOutput(call, shot) ==
    [type |-> "computer_call_output",
     call_id |-> call.call_id,
     acknowledged_safety_checks |->
        IF HasAttr(call, "pending_safety_checks") THEN call.pending_safety_checks ELSE <<>>,
     output |-> [type |-> "input_image", image_url |-> <<"data:image/png;base64,", shot>>]]

CallOutputWithUrl(call, shot, url) ==
    [CallOutput(call, shot) EXCEPT
        !.output = [type |-> "input_image",
                    image_url |-> <<"data:image/png;base64,", shot>>,
                    current_url |-> url]]

\* agent.py 293, 298, 303 (248), 322, 326-328: the values yielded.
AssistantEvent(item) == [role |-> item.role, content |-> <<item.content[1].text>>]

ReasoningEvent(item) ==
    [role |-> "reasoning",
     content |-> IF HasAttr(item, "summary")
                 THEN [i \in 1..Len(item.summary) |-> item.summary[i].text]
                 ELSE <<>>]

ActionEvent(call) == [action |-> call.action.type, params |-> ExtractParams(call.action)]

StoppedEvent == [role |-> "assistant", content |-> <<"Conversation stopped by user.">>]

ErrorPrefix == <<"An error occurred: ", "Error during conversation: ">>

ErrorEvent(err) == [role |-> "assistant", content |-> ErrorPrefix \o err]

\* agent.py 226-228
SafetyError(message) ==
    <<"Safety check failed: ", message,
      ". Cannot continue with unacknowledged safety checks.">>

\* agent.py 224
CheckMessage(check) ==
    IF HasAttr(check, "message") THEN check.message ELSE "Safety check with no message"

\* utils.check_blocklisted_url: raises on an address of the blocklist.
BlockedUrls == {"https://blocked.example"}

IsBlocklisted(url) == url \in BlockedUrls

BlockedError(url) == <<"Blocked URL: ", url>>

\* ----------------------------------------------------- run_conversation

UserTexts == {"task"}

\* agent.py 325-329: the handler around the loop body yields one message
\* built from the exception and leaves the loop. Without the break the while
\* condition would be evaluated again.
Handler_NoBreak(kind, err) ==
    /\ events' = Append(events, ErrorEvent(err))
    /\ failure' = Append(failure, [kind |-> kind, error |-> err,
                                   requests |-> Len(requests'),
                                   events |-> Len(events),
                                   driver |-> Len(driverLog')])
    /\ pc' = IF continue_conversation THEN "call" ELSE "done"

Handler(kind, err) ==
    /\ events' = Append(events, ErrorEvent(err))
    /\ failure' = Append(failure, [kind |-> kind, error |-> err,
                                   requests |-> Len(requests'),
                                   events |-> Len(events),
                                   driver |-> Len(driverLog')])
    /\ pc' = "done"

\* agent.py 273: the while condition, evaluated when the loop body ends.
LoopBack(cont) == IF cont THEN "call" ELSE "done"

\* The output items the remote model has emitted in the first n exchanges.
RECURSIVE Emitted(_)
Emitted(n) == IF n = 0 THEN 0 ELSE Emitted(n - 1) + Len(requests[n].output)

\* What the remote model may still answer to the exchange in flight.
Answers == Responses(MaxItems - Emitted(Len(requests)))

\* gradio_app.py 74-88 and agent.py 269-271: chat_with_agent clears the stop
\* flag, marks itself processing and starts run_conversation, which puts the
\* user item in the buffer.
Submit ==
    /\ pc = "idle"
    /\ ~processing
    /\ stop_requested' = FALSE
    /\ processing' = TRUE
    /\ \E text \in UserTexts : items' = <<UserItem(text)>>
    /\ continue_conversation' = TRUE
    /\ pc' = "call"
    /\ UNCHANGED <<last_response_id, response, idx, environment, stopRaisedAt,
                   historyVars, normVars,
                   driverVars, portVars, lifeVars, sessionVars>>

\* agent.py 276-283: the request of one loop exchange leaves.
CallSend ==
    /\ pc = "call"
    /\ requests' = Append(requests,
            [kind |-> "loop",
             previous_response_id |-> IF last_response_id # None
                                      THEN last_response_id ELSE None,
             input |-> items,
             status |-> "pending",
             output |-> <<>>,
             seen |-> [events |-> Len(events), driver |-> Len(driverLog)]])
    /\ pc' = "inflight"
    /\ UNCHANGED <<items, continue_conversation, last_response_id, response, idx,
                   environment, hostVars, events, driverLog, consulted, urlChecks,
                   stopPolls, failure, normVars,
                   driverVars, portVars, lifeVars, sessionVars>>

\* agent.py 276-283: client.responses.create raises.
CallFails ==
    /\ pc = "inflight"
    /\ requests' = [requests EXCEPT ![Len(requests)].status = "failed"]
    /\ UNCHANGED driverLog
    /\ Handler("transport", <<"Connection error.">>)
    /\ UNCHANGED <<items, continue_conversation, last_response_id, response, idx,
                   environment, hostVars, consulted, urlChecks, stopPolls, normVars,
                   driverVars, portVars, lifeVars, sessionVars>>

\* agent.py 286: `not response.output`.
NoOutput_Never(resp) == FALSE

NoOutput(resp) == resp = <<>>

\* agent.py 284-288: the response has no output: the handle is stored, then
\* ValueError("No output from model") is raised.
CallReturnsEmpty ==
    /\ pc = "inflight"
    /\ \E resp \in Answers :
        /\ NoOutput(resp)
        /\ requests' = [requests EXCEPT ![Len(requests)].status = "answered",
                                        ![Len(requests)].output = resp]
    /\ last_response_id' = ResponseId(Len(requests))
    /\ UNCHANGED driverLog
    /\ Handler("empty", <<"No output from model">>)
    /\ UNCHANGED <<items, continue_conversation, response, idx, environment,
                   hostVars, consulted, urlChecks, stopPolls, normVars,
                   driverVars, portVars, lifeVars, sessionVars>>

\* agent.py 290: continue_conversation = False, before the items are processed.
AssumeNoFurtherActions_Omitted == continue_conversation

AssumeNoFurtherActions == FALSE

\* agent.py 284-291: the response arrives with output; the handle is stored,
\* the loop is disarmed and the iteration over the items starts.
CallReturns ==
    /\ pc = "inflight"
    /\ \E resp \in Answers :
        /\ ~NoOutput(resp)
        /\ response' = Stamp(resp, Len(requests))
        /\ requests' = [requests EXCEPT ![Len(requests)].status = "answered",
                                        ![Len(requests)].output = response']
    /\ last_response_id' = ResponseId(Len(requests))
    /\ continue_conversation' = AssumeNoFurtherActions
    /\ idx' = 1
    /\ pc' = "items"
    /\ UNCHANGED <<items, environment, hostVars, events, driverLog, consulted,
                   urlChecks, stopPolls, failure, normVars,
                   driverVars, portVars, lifeVars, sessionVars>>

\* agent.py 291: the for loop has a next item. A loop that also looked at the
\* stop flag would leave early.
ItemsLeft_UnlessStopped == idx <= Len(response) /\ ~stop_requested

ItemsLeft == idx <= Len(response)

Item == response[idx]

IsAssistant(item) == HasAttr(item, "role") /\ item.role = "assistant"

\* agent.py 292-293
YieldAssistant ==
    /\ pc = "items"
    /\ ItemsLeft
    /\ IsAssistant(Item)
    /\ events' = Append(events, AssistantEvent(Item))
    /\ idx' = idx + 1
    /\ UNCHANGED <<pc, items, continue_conversation, last_response_id, response,
                   environment, hostVars, requests, driverLog, consulted, urlChecks,
                   stopPolls, failure, normVars,
                   driverVars, portVars, lifeVars, sessionVars>>

\* agent.py 294-298
YieldReasoning ==
    /\ pc = "items"
    /\ ItemsLeft
    /\ ~IsAssistant(Item)
    /\ Item.type = "reasoning"
    /\ events' = Append(events, ReasoningEvent(Item))
    /\ idx' = idx + 1
    /\ UNCHANGED <<pc, items, continue_conversation, last_response_id, response,
                   environment, hostVars, requests, driverLog, consulted, urlChecks,
                   stopPolls, failure, normVars,
                   driverVars, portVars, lifeVars, sessionVars>>

IsComputerCall(item) ==
    ~IsAssistant(item) /\ item.type # "reasoning" /\ item.type = "computer_call"

\* agent.py 198-203: the exception of the extraction leaves handle_item
\* before the try block of line 209 is entered: nothing is asked of the
\* driver. An extraction inside that block would still take the screenshot.
EffectsOfRejected_Screenshot(call) == <<[op |-> "screenshot", call_id |-> call.call_id, params |-> <<>>]>>

EffectsOfRejected(call) == <<>>

\* agent.py 299-300, 66-203: handle_item is entered and the extraction raises.
HandleItemExtractRaises ==
    /\ pc = "items"
    /\ ItemsLeft
    /\ IsComputerCall(Item)
    /\ ExtractError(Item.action) # <<>>
    /\ UNCHANGED requests
    /\ driverLog' = driverLog \o EffectsOfRejected(Item)
    /\ Handler("normalize", ExtractError(Item.action))
    /\ UNCHANGED <<items, continue_conversation, last_response_id, response, idx,
                   environment, hostVars, consulted, urlChecks, stopPolls, normVars,
                   driverVars, portVars, lifeVars, sessionVars>>

\* One entry of the driver log: the operation, the request it serves, its arguments.
DriverOp(op, call, params) == [op |-> op, call_id |-> call.call_id, params |-> params]

\* agent.py 299-300, 66-212: the extraction succeeds and the driver method
\* named by the kind is called with the params.
HandleItemDispatch ==
    /\ pc = "items"
    /\ ItemsLeft
    /\ IsComputerCall(Item)
    /\ ExtractError(Item.action) = <<>>
    /\ driverLog' = Append(driverLog,
                           DriverOp(Item.action.type, Item, ExtractParams(Item.action)))
    /\ pc' = "acting"
    /\ UNCHANGED <<items, continue_conversation, last_response_id, response, idx,
                   environment, hostVars, requests, events, consulted, urlChecks,
                   stopPolls, failure, normVars,
                   driverVars, portVars, lifeVars, sessionVars>>

\* agent.py 212, 250-255: the driver method raises; handle_item re-raises.
\* A handler that retried would go back to the same item.
DriverRaises_Retry ==
    /\ pc = "acting"
    /\ pc' = "items"
    /\ UNCHANGED <<items, continue_conversation, last_response_id, response, idx,
                   environment, hostVars, historyVars, normVars,
                   driverVars, portVars, lifeVars, sessionVars>>

DriverRaises ==
    /\ pc = "acting"
    /\ UNCHANGED <<requests, driverLog>>
    /\ \E err \in DriverErrors : Handler("driver", err)
    /\ UNCHANGED <<items, continue_conversation, last_response_id, response, idx,
                   environment, hostVars, consulted, urlChecks, stopPolls, normVars,
                   driverVars, portVars, lifeVars, sessionVars>>

\* A handle_item that consulted the policy before capturing the screen.
AfterAction_NoCapture(call) ==
    IF call.action.type # "wait" THEN <<DriverOp("sleep", call, <<>>)>> ELSE <<>>

\* agent.py 215-219: the settle delay (not after a wait) and the screenshot.
AfterAction(call) ==
    (IF call.action.type # "wait" THEN <<DriverOp("sleep", call, <<>>)>> ELSE <<>>)
    \o <<DriverOp("screenshot", call, <<>>)>>

\* agent.py 222
PendingChecks(call) ==
    IF HasAttr(call, "pending_safety_checks") THEN call.pending_safety_checks ELSE <<>>

\* agent.py 223-228: the callback calls the loop over pending_checks makes
\* when the policy would answer answers[i] for the i-th check: it stops at
\* the first refusal. A loop that asked everything first would make them all.
Consultations_All(checks, answers) == Len(checks)

Consultations(checks, answers) ==
    IF \E i \in 1..Len(checks) : ~answers[i]
    THEN CHOOSE i \in 1..Len(checks) :
            ~answers[i] /\ \A j \in 1..(i - 1) : answers[j]
    ELSE Len(checks)

Refused(checks, answers) == \E i \in 1..Consultations(checks, answers) : ~answers[i]

FirstRefused(checks, answers) ==
    CHOOSE i \in 1..Len(checks) : ~answers[i] /\ \A j \in 1..(i - 1) : answers[j]

Consult(call, answers) ==
    [i \in 1..Consultations(PendingChecks(call), answers) |->
        [call_id |-> call.call_id,
         message |-> CheckMessage(PendingChecks(call)[i]),
         answer |-> answers[i]]]

\* agent.py 212-228: the driver method returned, the screenshot is taken and
\* the policy refuses a pending check: ValueError naming its message.
SafetyRefused ==
    /\ pc = "acting"
    /\ \E answers \in [1..Len(PendingChecks(Item)) -> BOOLEAN] :
        /\ Refused(PendingChecks(Item), answers)
        /\ consulted' = consulted \o Consult(Item, answers)
        /\ driverLog' = driverLog \o AfterAction(Item)
        /\ UNCHANGED requests
        /\ Handler("safety",
                   SafetyError(CheckMessage(
                       PendingChecks(Item)[FirstRefused(PendingChecks(Item), answers)])))
    /\ UNCHANGED <<items, continue_conversation, last_response_id, response, idx,
                   environment, hostVars, urlChecks, stopPolls, normVars,
                   driverVars, portVars, lifeVars, sessionVars>>

\* agent.py 243: the URL check is made for a browser environment only.
UrlCheckApplies_Always == TRUE

UrlCheckApplies == environment = "browser"

AllApproved(call) == [i \in 1..Len(PendingChecks(call)) |-> TRUE]

\* agent.py 212-246: every check is approved, the environment is a browser
\* and check_blocklisted_url raises on the current address.
UrlBlocked ==
    /\ pc = "acting"
    /\ UrlCheckApplies
    /\ \E url \in Urls :
        /\ IsBlocklisted(url)
        /\ urlChecks' = Append(urlChecks, [call_id |-> Item.call_id, url |-> url])
        /\ consulted' = consulted \o Consult(Item, AllApproved(Item))
        /\ driverLog' = driverLog \o AfterAction(Item)
        /\ UNCHANGED requests
        /\ Handler("url", BlockedError(url))
    /\ UNCHANGED <<items, continue_conversation, last_response_id, response, idx,
                   environment, hostVars, stopPolls, normVars,
                   driverVars, portVars, lifeVars, sessionVars>>

\* agent.py 212-248, 300-303: handle_item returns; the result is appended to
\* the buffer, the loop is re-armed and the action is yielded.
HandleItemReturns ==
    /\ pc = "acting"
    /\ \E shot \in Screenshots, url \in Urls :
        /\ UrlCheckApplies => ~IsBlocklisted(url)
        /\ urlChecks' = IF UrlCheckApplies
                        THEN Append(urlChecks, [call_id |-> Item.call_id, url |-> url])
                        ELSE urlChecks
        /\ items' = Append(items, IF UrlCheckApplies
                                  THEN CallOutputWithUrl(Item, shot, url)
                                  ELSE CallOutput(Item, shot))
    /\ consulted' = consulted \o Consult(Item, AllApproved(Item))
    /\ driverLog' = driverLog \o AfterAction(Item)
    /\ continue_conversation' = TRUE
    /\ events' = Append(events, ActionEvent(Item))
    /\ idx' = idx + 1
    /\ pc' = "items"
    /\ UNCHANGED <<last_response_id, response, environment, hostVars, requests,
                   stopPolls, failure, normVars,
                   driverVars, portVars, lifeVars, sessionVars>>

\* One call of should_stop_callback: what it returned and how far the for
\* loop over the response had come.
Poll(value) == [value |-> value, idx |-> idx, len |-> Len(response)]

\* agent.py 307, 273: every item is processed, the stop flag is polled and is
\* clear; the while condition decides.
CheckpointContinue ==
    /\ pc = "items"
    /\ ~ItemsLeft
    /\ ~stop_requested
    /\ stopPolls' = Append(stopPolls, Poll(FALSE))
    /\ pc' = LoopBack(continue_conversation)
    /\ UNCHANGED <<items, continue_conversation, last_response_id, response, idx,
                   environment, hostVars, requests, events, driverLog, consulted,
                   urlChecks, failure, normVars,
                   driverVars, portVars, lifeVars, sessionVars>>

\* agent.py 307-317: the stop flag is polled and is set; the synthetic user
\* item is appended and the flush request leaves.
CheckpointStop ==
    /\ pc = "items"
    /\ ~ItemsLeft
    /\ stop_requested
    /\ stopPolls' = Append(stopPolls, Poll(TRUE))
    /\ items' = Append(items, StopItem)
    /\ requests' = Append(requests,
            [kind |-> "flush",
             previous_response_id |-> last_response_id,
             input |-> items',
             status |-> "pending",
             output |-> <<>>,
             seen |-> [events |-> Len(events), driver |-> Len(driverLog)]])
    /\ pc' = "flush"
    /\ UNCHANGED <<continue_conversation, last_response_id, response, idx,
                   environment, hostVars, events, driverLog, consulted, urlChecks,
                   failure, normVars,
                   driverVars, portVars, lifeVars, sessionVars>>

\* What the remote model answers to a flush; the engine does not read it.
FlushResponses == {<<>>, <<AssistantItem>>, <<ComputerCall(ClickAction)>>}

\* agent.py 323: continue_conversation = False after the stop message.
StopContinue_Omitted == continue_conversation

StopContinue == FALSE

\* agent.py 318-323: the flush is answered: the handle is stored, the buffer
\* cleared, the stop message yielded and the loop ended.
FlushReturns ==
    /\ pc = "flush"
    /\ \E resp \in FlushResponses :
        requests' = [requests EXCEPT ![Len(requests)].status = "answered",
                                     ![Len(requests)].output = Stamp(resp, Len(requests))]
    /\ last_response_id' = ResponseId(Len(requests))
    /\ items' = <<>>
    /\ events' = Append(events, StoppedEvent)
    /\ continue_conversation' = StopContinue
    /\ pc' = LoopBack(continue_conversation')
    /\ UNCHANGED <<response, idx, environment, hostVars, driverLog, consulted,
                   urlChecks, stopPolls, failure, normVars,
                   driverVars, portVars, lifeVars, sessionVars>>

\* agent.py 320-323: the flush raises; the exception is printed and dropped,
\* the stop message yielded and the loop ended.
FlushFails ==
    /\ pc = "flush"
    /\ requests' = [requests EXCEPT ![Len(requests)].status = "failed"]
    /\ events' = Append(events, StoppedEvent)
    /\ continue_conversation' = StopContinue
    /\ pc' = LoopBack(continue_conversation')
    /\ UNCHANGED <<items, last_response_id, response, idx, environment, hostVars,
                   driverLog, consulted, urlChecks, stopPolls, failure, normVars,
                   driverVars, portVars, lifeVars, sessionVars>>

\* gradio_app.py 126-134: stop_conversation, on the host's own thread.
StopConversation ==
    /\ processing
    /\ ~stop_requested
    /\ stop_requested' = TRUE
    /\ stopRaisedAt' = <<pc, idx>>
    /\ UNCHANGED <<processing, engineVars, historyVars, normVars,
                   driverVars, portVars, lifeVars, sessionVars>>

\* No driver operation has been invoked and no port selection has begun.
DriverAtRest == driverCall = <<>> /\ commands = <<>>

\* No handler of the host has been invoked.
SessionAtRest ==
    /\ chat = <<>>
    /\ turns = <<>>
    /\ stopper = <<>>
    /\ lastGood = <<>>
    /\ resetSeen = <<>>

\* No with-block has been entered.
LifeAtRest ==
    /\ shutdown_on_exit = FALSE
    /\ container_started_by_us = FALSE
    /\ container = <<>>
    /\ generation = 0
    /\ lifePc = "out"
    /\ polls = 0
    /\ lastStatus = <<>>
    /\ scopes = 0
    /\ firstFound = <<>>
    /\ lifeLog = <<>>

PortsAtRest ==
    /\ inUse = {}
    /\ portPc = <<>>
    /\ port = <<>>
    /\ attempt = <<>>
    /\ probes = <<>>
    /\ vnc_port = <<>>

Init ==
    /\ SessionAtRest
    /\ LifeAtRest
    /\ DriverAtRest
    /\ PortsAtRest
    /\ pc = "idle"
    /\ items = <<>>
    /\ continue_conversation = FALSE
    /\ last_response_id = None
    /\ response = <<>>
    /\ idx = 0
    /\ environment \in {"linux", "browser"}
    /\ stop_requested = FALSE
    /\ processing = FALSE
    /\ stopRaisedAt = <<>>
    /\ requests = <<>>
    /\ events = <<>>
    /\ driverLog = <<>>
    /\ consulted = <<>>
    /\ urlChecks = <<>>
    /\ stopPolls = <<>>
    /\ failure = <<>>
    /\ action = [type |-> "screenshot"]
    /\ normalized = <<"pending">>

Next ==
    \/ Submit
    \/ CallSend
    \/ CallFails
    \/ CallReturnsEmpty
    \/ CallReturns
    \/ YieldAssistant
    \/ YieldReasoning
    \/ HandleItemExtractRaises
    \/ HandleItemDispatch
    \/ DriverRaises
    \/ SafetyRefused
    \/ UrlBlocked
    \/ HandleItemReturns
    \/ CheckpointContinue
    \/ CheckpointStop
    \/ FlushReturns
    \/ FlushFails
    \/ StopConversation

Spec == Init /\ [][Next]_vars

\* ---------------------------------------------------------------- NormSpec

\* Durations a raw wait request carries.
WaitValues == {250, 500}

\* A raw wait request: the direct fields of `direct`, a nested params object
\* when withParams, carrying the fields of `nested`; v gives each field's value.
RawWait(direct, withParams, nested, v) ==
    [f \in {"type"} \cup direct \cup (IF withParams THEN {"params"} ELSE {}) |->
        CASE f = "type" -> "wait"
          [] f = "ms" -> v.ms
          [] f = "time" -> v.time
          [] f = "params" -> [g \in nested |-> IF g = "ms" THEN v.pms ELSE v.ptime]]

WaitRequests ==
    {RawWait(direct, withParams, nested, v) :
        direct \in SUBSET {"ms", "time"},
        withParams \in BOOLEAN,
        nested \in SUBSET {"ms", "time"},
        v \in [ms : WaitValues, time : WaitValues, pms : WaitValues, ptime : WaitValues]}

\* The value a raw request carries in a field.
RawValue(f) ==
    CASE f = "x" -> 5
      [] f = "y" -> 7
      [] f = "scroll_x" -> 0
      [] f = "scroll_y" -> 3
      [] f = "button" -> "right"

\* A raw request of `kind` carrying the fields of `present`.
RawFields(kind, present) ==
    [f \in {"type"} \cup present |-> IF f = "type" THEN kind ELSE RawValue(f)]

ClickRequests == {RawFields("click", present) : present \in SUBSET {"x", "y", "button"}}

DoubleClickRequests == {RawFields("double_click", present) : present \in SUBSET {"x", "y"}}

ScrollRequests ==
    {RawFields("scroll", present) : present \in SUBSET {"x", "y", "scroll_x", "scroll_y"}}

TypeRequests ==
    {[type |-> "type"], [type |-> "type", text |-> ""], [type |-> "type", text |-> "hi"]}

\* keys as a list, as an empty list and as a bare string.
KeypressRequests ==
    {[type |-> "keypress"],
     [type |-> "keypress", keys |-> [kind |-> "list", value |-> <<"CTRL", "c">>]],
     [type |-> "keypress", keys |-> [kind |-> "list", value |-> <<>>]],
     [type |-> "keypress", keys |-> [kind |-> "str", value |-> "ENTER"]]}

\* path absent, empty, of one and of three points, and with a point without y.
DragRequests ==
    {[type |-> "drag"],
     [type |-> "drag", path |-> <<>>],
     [type |-> "drag", path |-> <<[x |-> 0, y |-> 0]>>],
     [type |-> "drag", path |-> <<[x |-> 0, y |-> 0], [x |-> 10, y |-> 10], [x |-> 20, y |-> 5]>>],
     [type |-> "drag", path |-> <<[x |-> 0, y |-> 0], [x |-> 10]>>]}

ScreenshotRequests == {[type |-> "screenshot"], [type |-> "screenshot", x |-> 5]}

\* Kinds outside the vocabulary of agent.py 77-189.
UnknownRequests == {[type |-> "move", x |-> 5, y |-> 7], [type |-> "hover"]}

RawRequests ==
    WaitRequests \cup ClickRequests \cup DoubleClickRequests \cup ScrollRequests
    \cup TypeRequests \cup KeypressRequests \cup DragRequests
    \cup ScreenshotRequests \cup UnknownRequests

\* The extraction of handle_item applied to the request.
Extract ==
    /\ normalized = <<"pending">>
    /\ normalized' = <<"done", ExtractError(action),
                       IF ExtractError(action) = <<>> THEN ExtractParams(action) ELSE <<>>>>
    /\ UNCHANGED <<action, engineVars, hostVars, historyVars, driverVars, portVars, lifeVars, sessionVars>>

NormInit ==
    /\ SessionAtRest
    /\ LifeAtRest
    /\ DriverAtRest
    /\ PortsAtRest
    /\ action \in RawRequests
    /\ normalized = <<"pending">>
    /\ pc = "idle"
    /\ items = <<>>
    /\ continue_conversation = FALSE
    /\ last_response_id = None
    /\ response = <<>>
    /\ idx = 0
    /\ environment = "linux"
    /\ stop_requested = FALSE
    /\ processing = FALSE
    /\ stopRaisedAt = <<>>
    /\ requests = <<>>
    /\ events = <<>>
    /\ driverLog = <<>>
    /\ consulted = <<>>
    /\ urlChecks = <<>>
    /\ stopPolls = <<>>
    /\ failure = <<>>

NormNext == Extract

NormSpec == NormInit /\ [][NormNext]_vars

\* -------------------------------------------------------------- DriverSpec

\* A command is the text DockerComputer hands to _exec, as the sequence of
\* its words after the DISPLAY assignment; a number is written in decimal by
\* the f-string, and the text of a type command is the sequence of its
\* characters.
NumStr(n) == ToString(n)

Xdotool(words) == <<"xdotool">> \o words

MouseMove(x, y) == <<"mousemove", NumStr(x), NumStr(y)>>

Abs(n) == IF n < 0 THEN -n ELSE n

\* docker_computer.py 236-237: button_map.get(button, 1)
ButtonMap(button) ==
    CASE button = "left" -> 1
      [] button = "middle" -> 2
      [] button = "right" -> 3
      [] OTHER -> 1

\* docker_computer.py 235-238
ClickCommands(x, y, button) ==
    <<Xdotool(MouseMove(x, y) \o <<"click", NumStr(ButtonMap(button))>>)>>

\* docker_computer.py 240-243
DoubleClickCommands(x, y) ==
    <<Xdotool(MouseMove(x, y) \o <<"click", "--repeat", "2", "1">>)>>

\* A scroll that also enacted the horizontal distance, on buttons 6 and 7.
ScrollCommands_Horizontal(x, y, scroll_x, scroll_y) ==
    <<Xdotool(MouseMove(x, y))>>
    \o [i \in 1..Abs(scroll_y) |->
          Xdotool(<<"click", NumStr(IF scroll_y < 0 THEN 4 ELSE 5)>>)]
    \o [i \in 1..Abs(scroll_x) |->
          Xdotool(<<"click", NumStr(IF scroll_x < 0 THEN 6 ELSE 7)>>)]

\* docker_computer.py 245-253
ScrollCommands(x, y, scroll_x, scroll_y) ==
    <<Xdotool(MouseMove(x, y))>>
    \o [i \in 1..Abs(scroll_y) |->
          Xdotool(<<"click", NumStr(IF scroll_y < 0 THEN 4 ELSE 5)>>)]

\* docker_computer.py 261: text.split('\n')
RECURSIVE SplitLines(_)
SplitLines(text) ==
    IF \A i \in 1..Len(text) : text[i] # "\n"
    THEN <<text>>
    ELSE LET k == CHOOSE i \in 1..Len(text) :
                    text[i] = "\n" /\ \A j \in 1..(i - 1) : text[j] # "\n"
         IN  <<SubSeq(text, 1, k - 1)>> \o SplitLines(SubSeq(text, k + 1, Len(text)))

\* docker_computer.py 270, 277: line.replace("'", "'\\''")
RECURSIVE EscapeQuotes(_)
EscapeQuotes(line) ==
    IF line = <<>> THEN <<>>
    ELSE (IF Head(line) = "'" THEN <<"'", "\\", "'", "'">> ELSE <<Head(line)>>)
         \o EscapeQuotes(Tail(line))

\* docker_computer.py 272, 278: xdotool type -- '{safe_text}'
TypeCommand(line) == Xdotool(<<"type", "--", "'">> \o EscapeQuotes(line) \o <<"'">>)

\* docker_computer.py 265
ReturnCommand == Xdotool(<<"key", "Return">>)

\* docker_computer.py 268: `if line:`. A loop without the test would type
\* the empty lines too.
TypesLine_Always(line) == TRUE

TypesLine(line) == line # <<>>

\* docker_computer.py 262-274: the loop over the lines from the i-th on.
RECURSIVE LineCommands(_, _)
LineCommands(lines, i) ==
    IF i > Len(lines) THEN <<>>
    ELSE (IF i > 1 THEN <<ReturnCommand>> ELSE <<>>)
         \o (IF TypesLine(lines[i]) THEN <<TypeCommand(lines[i])>> ELSE <<>>)
         \o LineCommands(lines, i + 1)

\* docker_computer.py 255-279
TypeCommands(text) ==
    IF \E i \in 1..Len(text) : text[i] = "\n"
    THEN LineCommands(SplitLines(text), 1)
    ELSE <<TypeCommand(text)>>

\* A table whose entry for WIN is another logical name.
KeyTable_WinToSuperName ==
    [ENTER |-> "Return", LEFT |-> "Left", RIGHT |-> "Right", UP |-> "Up",
     DOWN |-> "Down", ESC |-> "Escape", SPACE |-> "space",
     BACKSPACE |-> "BackSpace", TAB |-> "Tab", CTRL |-> "ctrl", ALT |-> "alt",
     SHIFT |-> "shift", SUPER |-> "super", META |-> "meta", WIN |-> "SUPER",
     DELETE |-> "Delete", HOME |-> "Home", END |-> "End",
     PAGEUP |-> "Page_Up", PAGEDOWN |-> "Page_Down"]

\* docker_computer.py 288-309: the mapping table of keypress.
KeyTable ==
    [ENTER |-> "Return", LEFT |-> "Left", RIGHT |-> "Right", UP |-> "Up",
     DOWN |-> "Down", ESC |-> "Escape", SPACE |-> "space",
     BACKSPACE |-> "BackSpace", TAB |-> "Tab", CTRL |-> "ctrl", ALT |-> "alt",
     SHIFT |-> "shift", SUPER |-> "super", META |-> "meta", WIN |-> "super",
     DELETE |-> "Delete", HOME |-> "Home", END |-> "End",
     PAGEUP |-> "Page_Up", PAGEDOWN |-> "Page_Down"]

\* docker_computer.py 310: mapping.get(key, key)
MapKey(key) == IF key \in DOMAIN KeyTable THEN KeyTable[key] ELSE key

\* docker_computer.py 311: "+".join(mapped_keys), word by word.
RECURSIVE JoinPlus(_)
JoinPlus(symbols) ==
    IF symbols = <<>> THEN <<>>
    ELSE IF Len(symbols) = 1 THEN symbols
    ELSE <<Head(symbols), "+">> \o JoinPlus(Tail(symbols))

\* docker_computer.py 287-312
KeypressCommands(keys) ==
    <<Xdotool(<<"key">> \o JoinPlus([i \in 1..Len(keys) |-> MapKey(keys[i])]))>>

\* A drag whose loop ran over the whole path, the first point included.
DragCommands_MovesFromFirst(path) ==
    IF path = <<>> THEN <<>>
    ELSE <<Xdotool(MouseMove(path[1].x, path[1].y) \o <<"mousedown", "1">>)>>
         \o [i \in 1..Len(path) |-> Xdotool(MouseMove(path[i].x, path[i].y))]
         \o <<Xdotool(<<"mouseup", "1">>)>>

\* docker_computer.py 314-324
DragCommands(path) ==
    IF path = <<>> THEN <<>>
    ELSE <<Xdotool(MouseMove(path[1].x, path[1].y) \o <<"mousedown", "1">>)>>
         \o [i \in 1..(Len(path) - 1) |->
               Xdotool(MouseMove(path[i + 1].x, path[i + 1].y))]
         \o <<Xdotool(<<"mouseup", "1">>)>>

\* docker_computer.py 284-285
MoveCommands(x, y) == <<Xdotool(MouseMove(x, y))>>

\* The calls made of the driver: operation, arguments, whether it returned.
Call(op, args) == [op |-> op, args |-> args, returned |-> FALSE]

Points == {[x |-> 0, y |-> 0], [x |-> 10, y |-> 10], [x |-> 20, y |-> 5]}

Paths == UNION {[1..k -> Points] : k \in 0..MaxPath}

Characters == {"a", "'", "\n"}

Texts == UNION {[1..k -> Characters] : k \in 0..MaxText}

KeyNames == {"ENTER", "enter", "CTRL", "WIN", "Return", "c"}

Chords == UNION {[1..k -> KeyNames] : k \in 0..MaxKeys}

DriverCalls ==
    {Call("click", [x |-> 5, y |-> 7, button |-> b]) :
        b \in {"left", "middle", "right", "wheel"}}
    \cup {Call("double_click", [x |-> 5, y |-> 7])}
    \cup {Call("scroll", [x |-> 5, y |-> 5, scroll_x |-> sx, scroll_y |-> sy]) :
            sx \in {0, 2}, sy \in (-MaxScroll)..MaxScroll}
    \cup {Call("type", [text |-> t]) : t \in Texts}
    \cup {Call("wait", [ms |-> ms]) : ms \in {250, DefaultWaitMs}}
    \cup {Call("move", [x |-> 5, y |-> 7])}
    \cup {Call("keypress", [keys |-> k]) : k \in Chords}
    \cup {Call("drag", [path |-> p]) : p \in Paths}

\* One driver operation runs to its end: the commands it hands to _exec.
Operation(op, cmds) ==
    /\ driverCall.op = op
    /\ ~driverCall.returned
    /\ commands' = commands \o cmds
    /\ driverCall' = [driverCall EXCEPT !.returned = TRUE]
    /\ UNCHANGED <<engineVars, hostVars, historyVars, normVars, portVars, lifeVars, sessionVars>>

Click ==
    Operation("click",
              ClickCommands(driverCall.args.x, driverCall.args.y, driverCall.args.button))

DoubleClick ==
    Operation("double_click", DoubleClickCommands(driverCall.args.x, driverCall.args.y))

Scroll ==
    Operation("scroll",
              ScrollCommands(driverCall.args.x, driverCall.args.y,
                             driverCall.args.scroll_x, driverCall.args.scroll_y))

Type == Operation("type", TypeCommands(driverCall.args.text))

\* docker_computer.py 281-282: time.sleep, no command.
Wait == Operation("wait", <<>>)

Move == Operation("move", MoveCommands(driverCall.args.x, driverCall.args.y))

Keypress == Operation("keypress", KeypressCommands(driverCall.args.keys))

Drag == Operation("drag", DragCommands(driverCall.args.path))

\* The engine and the host are not running.
EngineAtRest ==
    /\ pc = "idle"
    /\ items = <<>>
    /\ continue_conversation = FALSE
    /\ last_response_id = None
    /\ response = <<>>
    /\ idx = 0
    /\ environment = "linux"
    /\ stop_requested = FALSE
    /\ processing = FALSE
    /\ stopRaisedAt = <<>>
    /\ requests = <<>>
    /\ events = <<>>
    /\ driverLog = <<>>
    /\ consulted = <<>>
    /\ urlChecks = <<>>
    /\ stopPolls = <<>>
    /\ failure = <<>>
    /\ action = [type |-> "screenshot"]
    /\ normalized = <<"pending">>

DriverInit ==
    /\ SessionAtRest
    /\ LifeAtRest
    /\ EngineAtRest
    /\ PortsAtRest
    /\ driverCall \in DriverCalls
    /\ commands = <<>>

DriverNext ==
    \/ Click
    \/ DoubleClick
    \/ Scroll
    \/ Type
    \/ Wait
    \/ Move
    \/ Keypress
    \/ Drag

DriverSpec == DriverInit /\ [][DriverNext]_vars

\* ---------------------------------------------------------------- PortSpec

\* docker_computer.py 38: the preferred VNC port. 49: max_attempts.
PreferredPort == 5900

MaxAttempts == 10

\* Two drivers constructed on the same machine.
Drivers == {1, 2}

\* The ports a selection can reach.
Ports == PreferredPort..(PreferredPort + MaxAttempts)

\* What may listen on the machine: all but a few of the ports.
Occupations == {used \in SUBSET Ports : Cardinality(Ports \ used) <= MaxFree}

\* docker_computer.py 56: connect_ex returns 0 when something listens.
Connects(p) == p \in inUse

\* docker_computer.py 64, 67: port += 1. A loop that forgot the increment
\* would probe the same port again.
NextPort_Same(p) == p

NextPort(p) == p + 1

\* One probe: the port asked and what came of it.
Probe(p, outcome) == [port |-> p, outcome |-> outcome]

Errors(log) == {i \in 1..Len(log) : log[i].outcome = "error"}

\* The probes that raised so far, of either driver.
Raised == UNION {{e} \X Errors(probes[e]) : e \in Drivers}

\* docker_computer.py 38, 48-49: __init__ was given no vnc_port and enters
\* _find_available_port(5900).
FindAvailablePort(d) ==
    /\ portPc[d] = "init"
    /\ port' = [port EXCEPT ![d] = PreferredPort]
    /\ attempt' = [attempt EXCEPT ![d] = 0]
    /\ portPc' = [portPc EXCEPT ![d] = "probe"]
    /\ UNCHANGED <<inUse, probes, vnc_port, engineVars, hostVars, historyVars,
                   normVars, driverVars, lifeVars, sessionVars>>

\* docker_computer.py 51-61: the probe cannot connect: the port is returned
\* and becomes self.vnc_port.
ProbeAvailable(d) ==
    /\ portPc[d] = "probe"
    /\ attempt[d] < MaxAttempts
    /\ ~Connects(port[d])
    /\ probes' = [probes EXCEPT ![d] = Append(@, Probe(port[d], "free"))]
    /\ attempt' = [attempt EXCEPT ![d] = @ + 1]
    /\ vnc_port' = [vnc_port EXCEPT ![d] = port[d]]
    /\ portPc' = [portPc EXCEPT ![d] = "done"]
    /\ UNCHANGED <<inUse, port, engineVars, hostVars, historyVars, normVars,
                   driverVars, lifeVars, sessionVars>>

\* docker_computer.py 51-64: the probe connects: the next port is tried.
ProbeInUse(d) ==
    /\ portPc[d] = "probe"
    /\ attempt[d] < MaxAttempts
    /\ Connects(port[d])
    /\ probes' = [probes EXCEPT ![d] = Append(@, Probe(port[d], "occupied"))]
    /\ attempt' = [attempt EXCEPT ![d] = @ + 1]
    /\ port' = [port EXCEPT ![d] = NextPort(@)]
    /\ UNCHANGED <<inUse, portPc, vnc_port, engineVars, hostVars, historyVars,
                   normVars, driverVars, lifeVars, sessionVars>>

\* docker_computer.py 52-57, 65-67: the probe raises: the next port is tried.
ProbeRaises(d) ==
    /\ portPc[d] = "probe"
    /\ attempt[d] < MaxAttempts
    /\ Cardinality(Raised) < MaxProbeErrors
    /\ probes' = [probes EXCEPT ![d] = Append(@, Probe(port[d], "error"))]
    /\ attempt' = [attempt EXCEPT ![d] = @ + 1]
    /\ port' = [port EXCEPT ![d] = NextPort(@)]
    /\ UNCHANGED <<inUse, portPc, vnc_port, engineVars, hostVars, historyVars,
                   normVars, driverVars, lifeVars, sessionVars>>

\* docker_computer.py 51, 69-70: the for loop is exhausted: `return port`.
AttemptsExhausted(d) ==
    /\ portPc[d] = "probe"
    /\ attempt[d] = MaxAttempts
    /\ vnc_port' = [vnc_port EXCEPT ![d] = port[d]]
    /\ portPc' = [portPc EXCEPT ![d] = "done"]
    /\ UNCHANGED <<inUse, port, attempt, probes, engineVars, hostVars,
                   historyVars, normVars, driverVars, lifeVars, sessionVars>>

\* What listens on the machine does not change while the drivers are
\* constructed; neither driver has a port yet (0 stands for None).
PortInit ==
    /\ SessionAtRest
    /\ LifeAtRest
    /\ EngineAtRest
    /\ DriverAtRest
    /\ inUse \in Occupations
    /\ portPc = [d \in Drivers |-> "init"]
    /\ port = [d \in Drivers |-> 0]
    /\ attempt = [d \in Drivers |-> 0]
    /\ probes = [d \in Drivers |-> <<>>]
    /\ vnc_port = [d \in Drivers |-> 0]

PortNext ==
    \E d \in Drivers :
        \/ FindAvailablePort(d)
        \/ ProbeAvailable(d)
        \/ ProbeInUse(d)
        \/ ProbeRaises(d)
        \/ AttemptsExhausted(d)

PortSpec == PortInit /\ [][PortNext]_vars

\* ------------------------------------------------------------ LifecycleSpec

\* with-blocks one driver instance enters, and times the environment is
\* started, by the driver or by anyone else.
MaxScopes == 2

MaxGenerations == 2

\* docker_computer.py 108: max_attempts of the health loop.
HealthAttempts == 10

\* docker_computer.py 76-84, 167-171: `docker ps -q -f name=...` prints the
\* id of the container when it runs.
Listed == container # <<>>

\* What `docker inspect` reports, or that the command could not be run.
HealthStatuses == {"healthy", "starting", "error"}

\* A health loop that gave up when its attempts were used.
PollOutcome_FailsHard(status, n) ==
    IF status = "healthy"
    THEN "ready"
    ELSE IF n = HealthAttempts - 1 THEN "raise" ELSE "retry"

\* docker_computer.py 109-125: what follows the poll of iteration n:
\* the break of line 119-120, the next iteration, or the end of the range
\* (also after the except branch of the last iteration).
PollOutcome(status, n) ==
    IF status # "error" /\ (status = "healthy" \/ n = HealthAttempts - 1)
    THEN "ready"
    ELSE IF n = HealthAttempts - 1 THEN "ready" ELSE "retry"

\* docker_computer.py 132 and 174-177: the errors __enter__ raises.
LaunchError == <<"Failed to start container">>

NotRunningError == <<"Container is not running">>

HealthError == <<"Container never became healthy">>

LifeEvent(event, detail, scope) ==
    [event |-> event, detail |-> detail, container |-> container, scope |-> scope]

\* docker_computer.py 162-165, 76-84: __enter__ calls _start_container, which
\* finds the container listed and returns.
EnterFindsRunning ==
    /\ lifePc = "out"
    /\ scopes < MaxScopes
    /\ Listed
    /\ scopes' = scopes + 1
    /\ firstFound' = IF scopes = 0 THEN container ELSE firstFound
    /\ lifePc' = "listing"
    /\ UNCHANGED <<shutdown_on_exit, container_started_by_us, container, generation,
                   polls, lastStatus, lifeLog>>
    /\ UNCHANGED <<engineVars, hostVars, historyVars, normVars, driverVars,
                   portVars, sessionVars>>

\* docker_computer.py 86-105: the container is not listed and
\* `docker-compose up -d --build` succeeds.
Launch ==
    /\ lifePc = "out"
    /\ scopes < MaxScopes
    /\ ~Listed
    /\ scopes' = scopes + 1
    /\ generation' = generation + 1
    /\ container' = <<"driver", generation + 1>>
    /\ polls' = 0
    /\ lastStatus' = <<>>
    /\ lifePc' = "polling"
    /\ lifeLog' = Append(lifeLog, LifeEvent("up", <<"ok">>, scopes + 1))
    /\ UNCHANGED <<shutdown_on_exit, container_started_by_us, firstFound>>
    /\ UNCHANGED <<engineVars, hostVars, historyVars, normVars, driverVars,
                   portVars, sessionVars>>

\* docker_computer.py 96-105, 130-132: the launch command fails; check=True
\* raises and _start_container raises RuntimeError out of __enter__.
LaunchFails ==
    /\ lifePc = "out"
    /\ scopes < MaxScopes
    /\ ~Listed
    /\ scopes' = scopes + 1
    /\ lifePc' = "out"
    /\ lifeLog' = lifeLog \o <<LifeEvent("up", <<"failed">>, scopes + 1),
                               LifeEvent("entry failed", LaunchError, scopes + 1)>>
    /\ UNCHANGED <<shutdown_on_exit, container_started_by_us, container, generation,
                   polls, lastStatus, firstFound>>
    /\ UNCHANGED <<engineVars, hostVars, historyVars, normVars, driverVars,
                   portVars, sessionVars>>

\* docker_computer.py 109-127: one iteration of the health loop; when the
\* loop is left the driver notes that it started the container.
HealthPoll ==
    /\ lifePc = "polling"
    /\ \E status \in HealthStatuses :
        /\ polls' = polls + 1
        /\ lastStatus' = <<status>>
        /\ LET outcome == PollOutcome(status, polls) IN
            /\ lifePc' = CASE outcome = "ready" -> "listing"
                           [] outcome = "retry" -> "polling"
                           [] outcome = "raise" -> "out"
            /\ container_started_by_us' =
                    (IF outcome = "ready" THEN TRUE ELSE container_started_by_us)
            /\ lifeLog' = IF outcome = "raise"
                          THEN Append(lifeLog, LifeEvent("entry failed", HealthError, scopes))
                          ELSE lifeLog
    /\ UNCHANGED <<shutdown_on_exit, container, generation, scopes, firstFound>>
    /\ UNCHANGED <<engineVars, hostVars, historyVars, normVars, driverVars,
                   portVars, sessionVars>>

\* docker_computer.py 167-189: the container is listed; __enter__ reads the
\* geometry and returns, and the with-block begins.
EnterReturns ==
    /\ lifePc = "listing"
    /\ Listed
    /\ lifePc' = "in"
    /\ lifeLog' = Append(lifeLog, LifeEvent("entered", <<>>, scopes))
    /\ UNCHANGED <<shutdown_on_exit, container_started_by_us, container, generation,
                   polls, lastStatus, scopes, firstFound>>
    /\ UNCHANGED <<engineVars, hostVars, historyVars, normVars, driverVars,
                   portVars, sessionVars>>

\* docker_computer.py 167-177: the container is not listed; RuntimeError.
EnterNotListed ==
    /\ lifePc = "listing"
    /\ ~Listed
    /\ lifePc' = "out"
    /\ lifeLog' = Append(lifeLog, LifeEvent("entry failed", NotRunningError, scopes))
    /\ UNCHANGED <<shutdown_on_exit, container_started_by_us, container, generation,
                   polls, lastStatus, scopes, firstFound>>
    /\ UNCHANGED <<engineVars, hostVars, historyVars, normVars, driverVars,
                   portVars, sessionVars>>

OperatedIn(scope) ==
    \E i \in 1..Len(lifeLog) : lifeLog[i].event = "op" /\ lifeLog[i].scope = scope

\* gradio_app.py 47-58, 84-88: the body of the with-block uses the driver
\* (the dimensions, or the operations of run_conversation).
UseDriver ==
    /\ lifePc = "in"
    /\ ~OperatedIn(scopes)
    /\ lifeLog' = Append(lifeLog, LifeEvent("op", <<>>, scopes))
    /\ UNCHANGED <<shutdown_on_exit, container_started_by_us, container, generation,
                   lifePc, polls, lastStatus, scopes, firstFound>>
    /\ UNCHANGED <<engineVars, hostVars, historyVars, normVars, driverVars,
                   portVars, sessionVars>>

\* docker_computer.py 136: the condition of the teardown.
TearsDown == container_started_by_us /\ shutdown_on_exit

\* docker_computer.py 191-193, 136-156: the with-block ends and
\* `docker-compose down` stops the environment.
ExitTearsDown ==
    /\ lifePc = "in"
    /\ TearsDown
    /\ lifeLog' = Append(lifeLog, LifeEvent("down", <<"ok">>, scopes))
    /\ container' = <<>>
    /\ lifePc' = "out"
    /\ UNCHANGED <<shutdown_on_exit, container_started_by_us, generation, polls,
                   lastStatus, scopes, firstFound>>
    /\ UNCHANGED <<engineVars, hostVars, historyVars, normVars, driverVars,
                   portVars, sessionVars>>

\* docker_computer.py 146-158: `docker-compose down` fails; the exception
\* is printed and swallowed.
ExitTeardownFails ==
    /\ lifePc = "in"
    /\ TearsDown
    /\ lifeLog' = Append(lifeLog, LifeEvent("down", <<"failed">>, scopes))
    /\ lifePc' = "out"
    /\ UNCHANGED <<shutdown_on_exit, container_started_by_us, container, generation,
                   polls, lastStatus, scopes, firstFound>>
    /\ UNCHANGED <<engineVars, hostVars, historyVars, normVars, driverVars,
                   portVars, sessionVars>>

\* docker_computer.py 136, 159-160: no teardown.
ExitLeavesRunning ==
    /\ lifePc = "in"
    /\ ~TearsDown
    /\ lifePc' = "out"
    /\ UNCHANGED <<shutdown_on_exit, container_started_by_us, container, generation,
                   polls, lastStatus, scopes, firstFound, lifeLog>>
    /\ UNCHANGED <<engineVars, hostVars, historyVars, normVars, driverVars,
                   portVars, sessionVars>>

\* The environment is outside the driver: the container can stop on its own
\* and someone else can start it.
ContainerStops ==
    /\ Listed
    /\ container' = <<>>
    /\ UNCHANGED <<shutdown_on_exit, container_started_by_us, generation, lifePc,
                   polls, lastStatus, scopes, firstFound, lifeLog>>
    /\ UNCHANGED <<engineVars, hostVars, historyVars, normVars, driverVars,
                   portVars, sessionVars>>

OtherStarts ==
    /\ ~Listed
    /\ lifePc \in {"out", "in"}
    /\ generation < MaxGenerations
    /\ generation' = generation + 1
    /\ container' = <<"other", generation + 1>>
    /\ UNCHANGED <<shutdown_on_exit, container_started_by_us, lifePc, polls,
                   lastStatus, scopes, firstFound, lifeLog>>
    /\ UNCHANGED <<engineVars, hostVars, historyVars, normVars, driverVars,
                   portVars, sessionVars>>

\* docker_computer.py 14-44: the driver is constructed, with either policy,
\* while the environment runs (started by someone else) or not.
LifeInit ==
    /\ SessionAtRest
    /\ EngineAtRest
    /\ DriverAtRest
    /\ PortsAtRest
    /\ shutdown_on_exit \in BOOLEAN
    /\ container_started_by_us = FALSE
    /\ \E g \in 0..1 :
        /\ generation = g
        /\ container = IF g = 0 THEN <<>> ELSE <<"other", g>>
    /\ lifePc = "out"
    /\ polls = 0
    /\ lastStatus = <<>>
    /\ scopes = 0
    /\ firstFound = <<>>
    /\ lifeLog = <<>>

LifeNext ==
    \/ EnterFindsRunning
    \/ Launch
    \/ LaunchFails
    \/ HealthPoll
    \/ EnterReturns
    \/ EnterNotListed
    \/ UseDriver
    \/ ExitTearsDown
    \/ ExitTeardownFails
    \/ ExitLeavesRunning
    \/ ContainerStops
    \/ OtherStarts

LifecycleSpec == LifeInit /\ [][LifeNext]_vars

\* -------------------------------------------------------------- SessionSpec

\* chat_with_agent invocations, and action requests the remote model emits
\* over all of them.
MaxSubmissions == 2

MaxCalls == 1

Submissions == 1..MaxSubmissions

\* The other variables of the engine stay as constructed: SessionSpec follows
\* the globals of gradio_app.py and agent.last_response_id only.
EngineIdle ==
    UNCHANGED <<pc, items, continue_conversation, response, idx, environment,
                stopRaisedAt, historyVars, normVars, driverVars, portVars, lifeVars>>

\* The invocations between `processing = True` (gradio_app.py 81) and
\* `processing = False` (123), and those inside run_conversation.
Marked == {"enter", "call", "inflight", "poll", "flushing", "finally"}

Running == {"call", "inflight", "poll", "flushing"}

\* The invocations that have not begun or have returned.
Outside == {"new", "rejected", "returned"}

At(t, where) == chat[t].pc = where

\* chat_with_agent is invoked; the invocations are numbered as they arrive.
Arrives(t) == At(t, "new") /\ \A u \in 1..(t - 1) : ~At(u, "new")

Goto(t, where) == [chat EXCEPT ![t].pc = where]

CallsEmitted == Cardinality({n \in 1..Len(turns) : turns[n].call})

\* gradio_app.py 71-75: the driver and the agent exist; an invocation that
\* finds processing set returns "Already processing".
Rejected(t) ==
    /\ Arrives(t)
    /\ processing
    /\ chat' = [chat EXCEPT ![t].pc = "rejected",
                            ![t].next = resetSeen # <<>> /\ \A u \in Submissions : ~chat[u].next]
    /\ UNCHANGED <<stop_requested, processing, last_response_id, turns, stopper,
                   lastGood, resetSeen>>
    /\ EngineIdle

\* gradio_app.py 74: processing is found clear.
Accepted(t) ==
    /\ Arrives(t)
    /\ ~processing
    /\ chat' = [chat EXCEPT ![t].pc = "clear",
                            ![t].next = resetSeen # <<>> /\ \A u \in Submissions : ~chat[u].next,
                            ![t].alone = \A u \in Submissions \ {t} : chat[u].pc \in Outside]
    /\ UNCHANGED <<stop_requested, processing, last_response_id, turns, stopper,
                   lastGood, resetSeen>>
    /\ EngineIdle

\* gradio_app.py 78: stop_requested = False.
ClearStop(t) ==
    /\ At(t, "clear")
    /\ stop_requested' = FALSE
    /\ chat' = Goto(t, "mark")
    /\ UNCHANGED <<processing, last_response_id, turns, stopper, lastGood, resetSeen>>
    /\ EngineIdle

\* gradio_app.py 81: processing = True.
MarkProcessing(t) ==
    /\ At(t, "mark")
    /\ processing' = TRUE
    /\ chat' = Goto(t, "enter")
    /\ UNCHANGED <<stop_requested, last_response_id, turns, stopper, lastGood,
                   resetSeen>>
    /\ EngineIdle

\* gradio_app.py 84-88, agent.py 269-273: the driver is entered and
\* run_conversation begins with the user item in its buffer.
BeginConversation(t) ==
    /\ At(t, "enter")
    /\ chat' = [chat EXCEPT ![t].pc = "call", ![t].cont = TRUE,
                            ![t].results = {}, ![t].first = TRUE]
    /\ UNCHANGED <<stop_requested, processing, last_response_id, turns, stopper,
                   lastGood, resetSeen>>
    /\ EngineIdle

\* gradio_app.py 84, 113-120: entering the driver raises; the error is
\* yielded and the finally clause runs.
EntryRaises(t) ==
    /\ At(t, "enter")
    /\ chat' = Goto(t, "finally")
    /\ UNCHANGED <<stop_requested, processing, last_response_id, turns, stopper,
                   lastGood, resetSeen>>
    /\ EngineIdle

Turn(t, kind) ==
    [by |-> t,
     kind |-> kind,
     previous_response_id |-> last_response_id,
     status |-> "pending",
     call |-> FALSE,
     results |-> chat[t].results,
     first |-> chat[t].first,
     expected |-> lastGood]

\* agent.py 276-283: the request of a loop exchange leaves, carrying the
\* handle the agent holds now.
Send(t) ==
    /\ At(t, "call")
    /\ turns' = Append(turns, Turn(t, "loop"))
    /\ chat' = [chat EXCEPT ![t].pc = "inflight", ![t].first = FALSE]
    /\ UNCHANGED <<stop_requested, processing, last_response_id, stopper, lastGood,
                   resetSeen>>
    /\ EngineIdle

\* The exchange of invocation t that is in flight.
TurnOf(t) == CHOOSE n \in 1..Len(turns) : turns[n].by = t /\ turns[n].status = "pending"

\* agent.py 276-283, 325-329: create raises; the error is yielded.
TransportFails(t) ==
    /\ At(t, "inflight")
    /\ turns' = [turns EXCEPT ![TurnOf(t)].status = "failed"]
    /\ chat' = Goto(t, "finally")
    /\ UNCHANGED <<stop_requested, processing, last_response_id, stopper, lastGood,
                   resetSeen>>
    /\ EngineIdle

\* agent.py 284-288: the response has no output; its id is stored and
\* ValueError raised.
AnsweredEmpty(t) ==
    /\ At(t, "inflight")
    /\ turns' = [turns EXCEPT ![TurnOf(t)].status = "answered"]
    /\ last_response_id' = ResponseId(TurnOf(t))
    /\ chat' = Goto(t, "finally")
    /\ UNCHANGED <<stop_requested, processing, stopper, lastGood, resetSeen>>
    /\ EngineIdle

\* agent.py 284-296: the response holds messages only; the loop is disarmed.
AnsweredText(t) ==
    /\ At(t, "inflight")
    /\ turns' = [turns EXCEPT ![TurnOf(t)].status = "answered"]
    /\ last_response_id' = ResponseId(TurnOf(t))
    /\ lastGood' = ResponseId(TurnOf(t))
    /\ chat' = [chat EXCEPT ![t].pc = "poll", ![t].cont = FALSE]
    /\ UNCHANGED <<stop_requested, processing, stopper, resetSeen>>
    /\ EngineIdle

\* agent.py 284-303: the response holds an action request; handle_item runs
\* it and its result joins the buffer.
AnsweredCall(t) ==
    /\ At(t, "inflight")
    /\ CallsEmitted < MaxCalls
    /\ turns' = [turns EXCEPT ![TurnOf(t)].status = "answered",
                              ![TurnOf(t)].call = TRUE]
    /\ last_response_id' = ResponseId(TurnOf(t))
    /\ lastGood' = ResponseId(TurnOf(t))
    /\ chat' = [chat EXCEPT ![t].pc = "poll", ![t].cont = TRUE,
                            ![t].results = @ \cup {TurnOf(t)}]
    /\ UNCHANGED <<stop_requested, processing, stopper, resetSeen>>
    /\ EngineIdle

\* agent.py 284-300, 325-329: the response holds an action request and
\* handle_item raises (normalisation, driver, refusal, blocked address).
AnsweredCallRaises(t) ==
    /\ At(t, "inflight")
    /\ CallsEmitted < MaxCalls
    /\ turns' = [turns EXCEPT ![TurnOf(t)].status = "answered",
                              ![TurnOf(t)].call = TRUE]
    /\ last_response_id' = ResponseId(TurnOf(t))
    /\ lastGood' = ResponseId(TurnOf(t))
    /\ chat' = Goto(t, "finally")
    /\ UNCHANGED <<stop_requested, processing, stopper, resetSeen>>
    /\ EngineIdle

\* agent.py 307, 273 and gradio_app.py 28-31: should_stop reads the flag
\* clear; the while condition decides.
PollContinues(t) ==
    /\ At(t, "poll")
    /\ ~stop_requested
    /\ chat' = Goto(t, IF chat[t].cont THEN "call" ELSE "finally")
    /\ UNCHANGED <<stop_requested, processing, last_response_id, turns, stopper,
                   lastGood, resetSeen>>
    /\ EngineIdle

\* agent.py 307-317: should_stop reads the flag set; the flush leaves.
PollStops(t) ==
    /\ At(t, "poll")
    /\ stop_requested
    /\ turns' = Append(turns, Turn(t, "flush"))
    /\ chat' = Goto(t, "flushing")
    /\ UNCHANGED <<stop_requested, processing, last_response_id, stopper, lastGood,
                   resetSeen>>
    /\ EngineIdle

\* agent.py 318-323: the flush is answered; its id is stored and its output,
\* an action request or not, is never read.
FlushAnswered(t) ==
    /\ At(t, "flushing")
    /\ \E call \in {c \in BOOLEAN : c => CallsEmitted < MaxCalls} :
        turns' = [turns EXCEPT ![TurnOf(t)].status = "answered",
                                  ![TurnOf(t)].call = call]
    /\ last_response_id' = ResponseId(TurnOf(t))
    /\ lastGood' = ResponseId(TurnOf(t))
    /\ chat' = [chat EXCEPT ![t].pc = "finally", ![t].results = {}]
    /\ UNCHANGED <<stop_requested, processing, stopper, resetSeen>>
    /\ EngineIdle

\* agent.py 320-323: the flush raises; the exception is printed.
FlushRaises(t) ==
    /\ At(t, "flushing")
    /\ turns' = [turns EXCEPT ![TurnOf(t)].status = "failed"]
    /\ chat' = Goto(t, "finally")
    /\ UNCHANGED <<stop_requested, processing, last_response_id, stopper, lastGood,
                   resetSeen>>
    /\ EngineIdle

\* gradio_app.py 123: processing = False.
ClearProcessing(t) ==
    /\ At(t, "finally")
    /\ processing' = FALSE
    /\ chat' = Goto(t, "unset")
    /\ UNCHANGED <<stop_requested, last_response_id, turns, stopper, lastGood,
                   resetSeen>>
    /\ EngineIdle

\* gradio_app.py 124: stop_requested = False.
UnsetStop(t) ==
    /\ At(t, "unset")
    /\ stop_requested' = FALSE
    /\ chat' = Goto(t, "returned")
    /\ UNCHANGED <<processing, last_response_id, turns, stopper, lastGood, resetSeen>>
    /\ EngineIdle

\* gradio_app.py 130: stop_conversation reads processing.
StopReadsProcessing ==
    /\ stopper.pc = "new"
    /\ stopper' = [pc |-> IF processing THEN "set" ELSE "returned",
                   saw |-> {t \in Submissions : chat[t].pc \in Marked}]
    /\ UNCHANGED <<stop_requested, processing, last_response_id, chat, turns,
                   lastGood, resetSeen>>
    /\ EngineIdle

\* gradio_app.py 131: stop_requested = True.
StopSetsFlag ==
    /\ stopper.pc = "set"
    /\ stop_requested' = TRUE
    /\ stopper' = [stopper EXCEPT !.pc = "returned"]
    /\ UNCHANGED <<processing, last_response_id, chat, turns, lastGood, resetSeen>>
    /\ EngineIdle

\* gradio_app.py 136-149: reset_chat_history clears the stop flag and the
\* agent's handle.
ResetChatHistory ==
    /\ resetSeen = <<>>
    /\ stop_requested' = FALSE
    /\ last_response_id' = None
    /\ lastGood' = None
    /\ resetSeen' = <<{t \in Submissions : chat[t].pc # "new"}>>
    /\ UNCHANGED <<processing, chat, turns, stopper>>
    /\ EngineIdle

\* gradio_app.py 17-21, 33-64: the driver and the agent are initialised and
\* no handler has been invoked.
SessionInit ==
    /\ LifeAtRest
    /\ EngineAtRest
    /\ DriverAtRest
    /\ PortsAtRest
    /\ chat = [t \in Submissions |->
                  [pc |-> "new", cont |-> FALSE, results |-> {}, first |-> FALSE,
                   next |-> FALSE, alone |-> TRUE]]
    /\ turns = <<>>
    /\ stopper = [pc |-> "new", saw |-> {}]
    /\ lastGood = None
    /\ resetSeen = <<>>

SessionNext ==
    \/ \E t \in Submissions :
        \/ Rejected(t)
        \/ Accepted(t)
        \/ ClearStop(t)
        \/ MarkProcessing(t)
        \/ BeginConversation(t)
        \/ EntryRaises(t)
        \/ Send(t)
        \/ TransportFails(t)
        \/ AnsweredEmpty(t)
        \/ AnsweredText(t)
        \/ AnsweredCall(t)
        \/ AnsweredCallRaises(t)
        \/ PollContinues(t)
        \/ PollStops(t)
        \/ FlushAnswered(t)
        \/ FlushRaises(t)
        \/ ClearProcessing(t)
        \/ UnsetStop(t)
    \/ StopReadsProcessing
    \/ StopSetsFlag
    \/ ResetChatHistory

SessionSpec == SessionInit /\ [][SessionNext]_vars

\* ------------------------------------------------------------------ claims

IsErrorEvent(e) ==
    /\ HasAttr(e, "role")
    /\ e.role = "assistant"
    /\ Len(e.content) >= 2
    /\ SubSeq(e.content, 1, 2) = ErrorPrefix

IsStoppedEvent(e) ==
    HasAttr(e, "role") /\ e.role = "assistant" /\ e.content = StoppedEvent.content

IsResultOf(item, call_id) == HasAttr(item, "call_id") /\ item.call_id = call_id

HasCall(output) == \E i \in 1..Len(output) : IsCall(output[i])

StopObserved == \E i \in 1..Len(stopPolls) : stopPolls[i].value

Flushes == {i \in 1..Len(requests) : requests[i].kind = "flush"}

\* The driver methods invoked for the action requests of exchange n.
Dispatches(n) ==
    {j \in 1..Len(driverLog) :
        /\ driverLog[j].op \notin {"sleep", "screenshot"}
        /\ driverLog[j].call_id[2] = n}

\* C1: once the stop signal is read as set at the checkpoint, exactly one
\* flush exchange is attempted, carrying the synthetic stop item as its last
\* input item; it is the last remote call of the submission; when it has
\* ended (answered or failed) the last event is the one stop message, no error
\* message was yielded, and the submission is over.
C1_StopFlushOnce ==
    StopObserved =>
        /\ Cardinality(Flushes) = 1
        /\ Last(requests).kind = "flush"
        /\ Last(Last(requests).input) = StopItem
        /\ Last(stopPolls).value
        /\ failure = <<>>
        /\ pc \in {"flush", "done"}
        /\ pc = "flush" =>
            /\ Last(requests).status = "pending"
            /\ \A i \in 1..Len(events) : ~IsStoppedEvent(events[i])
        /\ pc = "done" =>
            /\ Last(requests).status \in {"answered", "failed"}
            /\ IsStoppedEvent(Last(events))
            /\ Cardinality({i \in 1..Len(events) : IsStoppedEvent(events[i])}) = 1
            /\ \A i \in 1..Len(events) : ~IsErrorEvent(events[i])

\* C1 witness: a text-only response, stop read at its checkpoint, the flush
\* failed and the submission ended with the stop message.
C1_Witness ==
    /\ pc = "done"
    /\ StopObserved
    /\ Last(requests).status = "failed"
    /\ ~HasCall(response)
    /\ IsStoppedEvent(Last(events))

ActionFailures == {"normalize", "driver", "safety", "url"}

\* C2: an error raised while an action request is normalised or executed ends
\* the submission: one message with the fixed prefix is yielded as the last
\* event, no remote exchange (loop or flush) and no driver operation follows,
\* the loop stays at the failed item, and no action request is dispatched twice.
C2_ActionErrorIsTerminal ==
    /\ Len(failure) <= 1
    /\ \A f \in Range(failure) : f.kind \in ActionFailures =>
        /\ pc = "done"
        /\ Len(events) = f.events + 1
        /\ Last(events) = ErrorEvent(f.error)
        /\ Cardinality({i \in 1..Len(events) : IsErrorEvent(events[i])}) = 1
        /\ Len(requests) = f.requests
        /\ Last(requests).kind = "loop"
        /\ Last(requests).status = "answered"
        /\ Len(driverLog) = f.driver
        /\ idx <= Len(response)
        /\ IsCall(response[idx])
        /\ \A it \in Range(items) : ~IsResultOf(it, response[idx].call_id)
    /\ \A i, j \in 1..Len(driverLog) :
        (/\ i < j
         /\ driverLog[i].op \notin {"sleep", "screenshot"}
         /\ driverLog[j].op \notin {"sleep", "screenshot"})
        => driverLog[i].call_id # driverLog[j].call_id

\* C2 witness: the driver failed on the first of two action requests while a
\* stop was already requested; the submission is over.
C2_Witness ==
    /\ pc = "done"
    /\ Len(failure) = 1
    /\ failure[1].kind = "driver"
    /\ idx = 1
    /\ Len(response) = 2
    /\ IsCall(response[2])
    /\ stop_requested

\* C3: a loop exchange that fails in transport or is answered with an empty
\* output is the last remote call of the submission: one error message is
\* yielded right after it and nothing else, no item is processed and no
\* driver operation is invoked after the request left.
C3_RemoteErrorIsTerminal ==
    \A n \in 1..Len(requests) :
        (/\ requests[n].kind = "loop"
         /\ \/ requests[n].status = "failed"
            \/ requests[n].status = "answered" /\ requests[n].output = <<>>)
        =>  /\ n = Len(requests)
            /\ pc = "done"
            /\ Len(failure) = 1
            /\ failure[1].kind =
                  (IF requests[n].status = "failed" THEN "transport" ELSE "empty")
            /\ Len(events) = requests[n].seen.events + 1
            /\ Last(events) = ErrorEvent(failure[1].error)
            /\ Len(driverLog) = requests[n].seen.driver

\* C3 witness: the second exchange of a submission was answered with an
\* empty output after an action of the first had been executed.
C3_Witness ==
    /\ pc = "done"
    /\ Len(requests) = 2
    /\ Last(requests).status = "answered"
    /\ Last(requests).output = <<>>
    /\ Len(driverLog) > 0
    /\ IsErrorEvent(Last(events))

\* The callback calls made for one action request, in order.
ConsultedFor(call_id) ==
    SelectSeq(consulted, LAMBDA c : c.call_id = call_id)

\* C4: a refused acknowledgement raises an error naming its exact message:
\* the refusal is the last callback call ever made (later acknowledgements
\* are not consulted), the calls made for the request are its pending checks
\* in order up to the refused one, the error message yielded carries the
\* refused message, and the result of that request is neither in the pending
\* buffer nor in the input of any remote request.
C4_SafetyRefusal ==
    /\ \A i \in 1..Len(consulted) : ~consulted[i].answer =>
        /\ i = Len(consulted)
        /\ Len(failure) = 1
        /\ failure[1].kind = "safety"
    /\ \A f \in Range(failure) : f.kind = "safety" =>
        LET call == response[idx]
            asked == ConsultedFor(call.call_id)
            k == Len(asked)
        IN  /\ k >= 1
            /\ k <= Len(PendingChecks(call))
            /\ \A j \in 1..k : asked[j].message = CheckMessage(PendingChecks(call)[j])
            /\ \A j \in 1..(k - 1) : asked[j].answer
            /\ ~asked[k].answer
            /\ f.error = SafetyError(asked[k].message)
            /\ Last(events) = ErrorEvent(SafetyError(asked[k].message))
            /\ \A it \in Range(items) : ~IsResultOf(it, call.call_id)
            /\ \A n \in 1..Len(requests) :
                \A it \in Range(requests[n].input) : ~IsResultOf(it, call.call_id)
            /\ Len(requests) = f.requests

\* C4 witness: the first of two pending acknowledgements was refused; the
\* second was never put to the policy.
C4_Witness ==
    /\ Len(failure) = 1
    /\ failure[1].kind = "safety"
    /\ Len(PendingChecks(response[idx])) = 2
    /\ Len(ConsultedFor(response[idx].call_id)) = 1
    /\ failure[1].error = SafetyError("m1")

Results(buffer) == {it \in Range(buffer) : HasAttr(it, "call_id")}

C6_LoopRearm ==
    /\ \A n \in 2..Len(requests) :
        requests[n].kind = "loop" => HasCall(requests[n - 1].output)
    /\ (pc = "call" /\ requests # <<>>) => HasCall(Last(requests).output)
    /\ (pc = "done" /\ failure = <<>> /\ ~StopObserved) =>
        /\ Last(requests).kind = "loop"
        /\ Last(requests).status = "answered"
        /\ Last(requests).output # <<>>
        /\ ~HasCall(Last(requests).output)
        /\ ~continue_conversation

\* C6 witness: the second response held reasoning and assistant text only and
\* the submission ended there.
C6_Witness ==
    /\ pc = "done"
    /\ failure = <<>>
    /\ ~StopObserved
    /\ Len(requests) = 2
    /\ \E i \in 1..Len(response) : response[i].type = "reasoning"
    /\ \E i \in 1..Len(response) : IsAssistant(response[i])

\* C7 as stated: between two consecutive remote exchanges at most one action
\* is dispatched to the driver.
C7_AtMostOneDispatch ==
    \A n \in 1..Len(requests) : Cardinality(Dispatches(n)) <= 1

\* C7 amended: the actions dispatched after an exchange are action requests
\* of its response, each dispatched at most once and in emitted order (so at
\* most as many as the response carries); a driver operation is invoked only
\* while no remote call is in flight and before the next request leaves.
C7_SequentialDispatch ==
    /\ \A n \in 1..Len(requests) :
        /\ Cardinality(Dispatches(n)) <=
              Cardinality({i \in 1..Len(requests[n].output) : IsCall(requests[n].output[i])})
        /\ \A j \in Dispatches(n) :
            /\ requests[n].kind = "loop"
            /\ requests[n].status = "answered"
            /\ driverLog[j].call_id[3] \in 1..Len(requests[n].output)
            /\ requests[n].output[driverLog[j].call_id[3]].call_id = driverLog[j].call_id
            /\ j > requests[n].seen.driver
            /\ n < Len(requests) => j <= requests[n + 1].seen.driver
    /\ \A i, j \in 1..Len(driverLog) :
        (/\ i < j
         /\ driverLog[i].op \notin {"sleep", "screenshot"}
         /\ driverLog[j].op \notin {"sleep", "screenshot"})
        => \/ driverLog[i].call_id[2] < driverLog[j].call_id[2]
           \/ /\ driverLog[i].call_id[2] = driverLog[j].call_id[2]
              /\ driverLog[i].call_id[3] < driverLog[j].call_id[3]
    /\ pc \in {"inflight", "flush"} =>
        /\ Last(requests).status = "pending"
        /\ Len(driverLog) = Last(requests).seen.driver
    /\ pc = "acting" => \A n \in 1..Len(requests) : requests[n].status # "pending"

\* C7 witness: both action requests of one response were dispatched and the
\* next request has left.
C7_Witness ==
    /\ Len(requests) = 2
    /\ Cardinality(Dispatches(1)) = 2
    /\ pc = "inflight"

\* C8: the stop flag is read only when every item of the response has been
\* processed: at each poll the for loop is past the last item and every
\* action request of that response has been dispatched and has its result in
\* the buffer, also when the stop was requested while the items were handled;
\* only the last poll can have read the flag as set.
C8_StopPolledAtCheckpoint ==
    /\ Len(stopPolls) <= Len(requests)
    /\ \A k \in 1..Len(stopPolls) :
        /\ stopPolls[k].idx = stopPolls[k].len + 1
        /\ stopPolls[k].len = Len(requests[k].output)
        /\ stopPolls[k].value => k = Len(stopPolls)
        /\ \A i \in 1..Len(requests[k].output) : IsCall(requests[k].output[i]) =>
            /\ \E j \in Dispatches(k) :
                driverLog[j].call_id = requests[k].output[i].call_id
            /\ \/ \E it \in Range(items) :
                    IsResultOf(it, requests[k].output[i].call_id)
               \/ \E it \in Range(Last(requests).input) :
                    IsResultOf(it, requests[k].output[i].call_id)

\* C8 witness: stop was requested while the first of two action requests was
\* being executed; both were dispatched before the flag was read as set.
C8_Witness ==
    /\ stopRaisedAt = <<"acting", 1>>
    /\ StopObserved
    /\ Len(response) = 2
    /\ Cardinality(Dispatches(Len(stopPolls))) = 2

\* C9: every item of the pending buffer is in the input of exactly one remote
\* request: no two requests of a submission carry the same item.
C9_EachItemSentOnce ==
    \A m, n \in 1..Len(requests) :
        m < n => Range(requests[m].input) \cap Range(requests[n].input) = {}

\* The four places a wait duration is read from.
Present(a, f) ==
    CASE f = "ms" -> HasAttr(a, "ms")
      [] f = "time" -> HasAttr(a, "time")
      [] f = "params.ms" -> HasAttr(a, "params") /\ HasAttr(a.params, "ms")
      [] f = "params.time" -> HasAttr(a, "params") /\ HasAttr(a.params, "time")

ValueAt(a, f) ==
    CASE f = "ms" -> a.ms
      [] f = "time" -> a.time
      [] f = "params.ms" -> a.params.ms
      [] f = "params.time" -> a.params.time

\* The normalised duration is the value of the first field of `order` present.
FirstPresentWins(order) ==
    (normalized[1] = "done" /\ action.type = "wait") =>
        \A i \in 1..Len(order) :
            (Present(action, order[i]) /\ \A j \in 1..(i - 1) : ~Present(action, order[j]))
            => normalized[2] = <<>> /\ normalized[3].ms = ValueAt(action, order[i])

\* C10 as stated: direct ms, then nested params.ms, then direct time, then
\* nested params.time.
C10_DirectFirstPrecedence ==
    FirstPresentWins(<<"ms", "params.ms", "time", "params.time">>)

\* C10 amended: the duration of a wait is the value of the first field
\* present in the order nested params.ms, direct ms, nested params.time,
\* direct time.
C10_NestedFirstPrecedence ==
    FirstPresentWins(<<"params.ms", "ms", "params.time", "time">>)

\* C10 witness: a wait carrying a direct ms and a different nested params.ms
\* has been normalised.
C10_Witness ==
    /\ normalized[1] = "done"
    /\ action.type = "wait"
    /\ Present(action, "ms")
    /\ Present(action, "params.ms")
    /\ action.ms # action.params.ms

\* ---------------------------------------------------- claims C11 to C20

NoDurationField(a) ==
    \A f \in {"ms", "time", "params.ms", "params.time"} : ~Present(a, f)

OnlyDirectTime(a) ==
    Present(a, "time") /\ \A f \in {"ms", "params.ms", "params.time"} : ~Present(a, f)

\* C11: a wait is always normalised (its extraction raises nothing); with
\* none of the four duration fields present its duration is 1000 ms, and
\* with a direct time of 250 as its only duration field it is 250 ms.
C11_WaitDefault ==
    (normalized[1] = "done" /\ action.type = "wait") =>
        /\ normalized[2] = <<>>
        /\ NoDurationField(action) => normalized[3] = [ms |-> 1000]
        /\ (OnlyDirectTime(action) /\ action.time = 250) => normalized[3] = [ms |-> 250]

\* C11 witness: a wait whose nested params object carries no duration and
\* that has no direct duration either was normalised to the default.
C11_Witness ==
    /\ normalized[1] = "done"
    /\ action.type = "wait"
    /\ HasAttr(action, "params")
    /\ NoDurationField(action)
    /\ normalized[3].ms = 1000

SupportedKinds ==
    {"click", "double_click", "type", "keypress", "scroll", "drag", "wait", "screenshot"}

\* The request carries every field its kind requires.
CarriesRequired(a) ==
    CASE a.type \in {"click", "double_click"} -> HasAttr(a, "x") /\ HasAttr(a, "y")
      [] a.type = "type" -> HasAttr(a, "text")
      [] a.type = "keypress" -> HasAttr(a, "keys")
      [] a.type = "scroll" ->
           \A f \in {"x", "y", "scroll_x", "scroll_y"} : HasAttr(a, f)
      [] a.type = "drag" ->
           HasAttr(a, "path") /\ a.path # <<>> /\ FirstBadPoint(a.path) = 0
      [] OTHER -> TRUE

\* The request lacks a field its kind requires.
MissesRequired(a) ==
    CASE a.type \in {"click", "double_click"} -> ~(HasAttr(a, "x") /\ HasAttr(a, "y"))
      [] a.type = "type" -> ~HasAttr(a, "text")
      [] a.type = "keypress" -> ~HasAttr(a, "keys")
      [] a.type = "scroll" ->
           \E f \in {"x", "y", "scroll_x", "scroll_y"} : ~HasAttr(a, f)
      [] a.type = "drag" -> ~HasAttr(a, "path") \/ a.path = <<>>
      [] OTHER -> FALSE

\* The kind whose name the text of an extraction error contains, "" if none.
KindNamed(err) ==
    CASE err = <<"Could not extract coordinates for click action">> -> "click"
      [] err = <<"Could not extract text for type action">> -> "type"
      [] err = <<"Could not extract keys for keypress action">> -> "keypress"
      [] err = <<"Could not extract scroll parameters">> -> "scroll"
      [] err = <<"Could not extract coordinates for double_click action">> -> "double_click"
      [] err = <<"Could not extract path for drag action">> -> "drag"
      [] OTHER -> IF err[1] = "Unknown action type: " THEN err[2] ELSE ""

\* C12 as stated: a request of a supported kind that carries its required
\* fields is normalised (a click without button gets button left, a bare
\* keypress key becomes a one-element list, an empty text is accepted); one
\* that lacks a required field fails with an error naming its kind; wait and
\* screenshot never fail.
C12_NormalizationTotality ==
    (normalized[1] = "done" /\ action.type \in SupportedKinds) =>
        /\ CarriesRequired(action) =>
            /\ normalized[2] = <<>>
            /\ (action.type = "click" /\ ~HasAttr(action, "button")) =>
                  normalized[3].button = "left"
            /\ (action.type = "keypress" /\ ~IsList(action.keys)) =>
                  normalized[3].keys = <<action.keys.value>>
            /\ action.type = "type" => normalized[3].text = action.text
        /\ MissesRequired(action) =>
            /\ normalized[2] # <<>>
            /\ KindNamed(normalized[2]) = action.type
        /\ action.type \in {"wait", "screenshot"} => normalized[2] = <<>>

\* The action requests of resp that precede its i-th item.
CallsBefore(resp, i) == {j \in 1..(i - 1) : IsCall(resp[j])}

\* C13: an action request that fails normalisation (a kind outside the
\* vocabulary, move included, or a missing field) has no effect: no driver
\* operation, settle delay or screenshot carries its id, the driver log holds
\* only the three entries of each request handled before it since the
\* response arrived, and the pending buffer is what was last sent plus the
\* result of each of those earlier requests; move is never dispatched.
C13_RejectedHasNoEffect ==
    /\ \A j \in 1..Len(driverLog) : driverLog[j].op # "move"
    /\ \A f \in Range(failure) : f.kind = "normalize" =>
        LET call == response[idx]
            sent == Last(requests)
            earlier == Cardinality(CallsBefore(response, idx))
        IN  /\ IsCall(call)
            /\ \/ call.action.type \notin SupportedKinds
               \/ MissesRequired(call.action)
            /\ \A j \in 1..Len(driverLog) : driverLog[j].call_id # call.call_id
            /\ Len(driverLog) = sent.seen.driver + 3 * earlier
            /\ Len(items) = Len(sent.input) + earlier
            /\ SubSeq(items, 1, Len(sent.input)) = sent.input
            /\ \A it \in Range(items) : ~IsResultOf(it, call.call_id)

\* C13 witness: a move request that followed an executed click in the same
\* response was rejected.
C13_Witness ==
    /\ Len(failure) = 1
    /\ failure[1].kind = "normalize"
    /\ idx = 2
    /\ response[2].action.type = "move"
    /\ IsCall(response[1])
    /\ Len(driverLog) = 3

\* The commands of a press at a point, of a pointer move to it, of a release.
PressAt(pt) == <<"xdotool", "mousemove", ToString(pt.x), ToString(pt.y), "mousedown", "1">>

MoveTo(pt) == <<"xdotool", "mousemove", ToString(pt.x), ToString(pt.y)>>

Release == <<"xdotool", "mouseup", "1">>

\* C14: a drag over the points p1..pn issues n + 1 commands in this order:
\* a pointer move to p1 with the button pressed, a pointer move to each of
\* p2..pn in path order, and the button release, which so happens at pn (at
\* p1 when n = 1); a drag over an empty path issues no command, and no
\* command is issued before the drag is called.
C14_DragOrder ==
    driverCall.op = "drag" =>
        LET path == driverCall.args.path
            n == Len(path)
        IN  /\ ~driverCall.returned => commands = <<>>
            /\ (driverCall.returned /\ n = 0) => commands = <<>>
            /\ (driverCall.returned /\ n >= 1) =>
                /\ Len(commands) = n + 1
                /\ commands[1] = PressAt(path[1])
                /\ \A i \in 2..n : commands[i] = MoveTo(path[i])
                /\ commands[n + 1] = Release

\* C14 witness: the drag over (0,0), (10,10), (20,5) has returned.
C14_Witness ==
    /\ driverCall.op = "drag"
    /\ driverCall.returned
    /\ driverCall.args.path = <<[x |-> 0, y |-> 0], [x |-> 10, y |-> 10], [x |-> 20, y |-> 5]>>
    /\ Len(commands) = 4

WheelUp == <<"xdotool", "click", "4">>

WheelDown == <<"xdotool", "click", "5">>

\* C15: a scroll issues one pointer move to (x, y) and then abs(scroll_y)
\* wheel commands and nothing else: all scroll-up when scroll_y < 0, all
\* scroll-down when scroll_y > 0, none when it is 0, whatever scroll_x is.
C15_ScrollWheel ==
    (driverCall.op = "scroll" /\ driverCall.returned) =>
        LET a == driverCall.args
        IN  /\ Len(commands) = 1 + (IF a.scroll_y < 0 THEN -a.scroll_y ELSE a.scroll_y)
            /\ commands[1] = MoveTo([x |-> a.x, y |-> a.y])
            /\ \A i \in 2..Len(commands) :
                commands[i] = IF a.scroll_y < 0 THEN WheelUp ELSE WheelDown

\* C15 witness: a scroll by -3 with a horizontal distance of 2 has returned.
C15_Witness ==
    /\ driverCall.op = "scroll"
    /\ driverCall.returned
    /\ driverCall.args.scroll_y = -3
    /\ driverCall.args.scroll_x = 2
    /\ Len(commands) = 4

\* The line breaks of a text, the k-th of them, the k-th line, and the
\* number of non-empty lines among the first k.
Breaks(text) == {i \in 1..Len(text) : text[i] = "\n"}

NthBreak(text, k) ==
    CHOOSE i \in Breaks(text) : Cardinality({j \in Breaks(text) : j <= i}) = k

LineOf(text, k) ==
    SubSeq(text,
           IF k = 1 THEN 1 ELSE NthBreak(text, k - 1) + 1,
           IF k = Cardinality(Breaks(text)) + 1 THEN Len(text) ELSE NthBreak(text, k) - 1)

NonEmptyUpTo(text, k) == Cardinality({j \in 1..k : LineOf(text, j) # <<>>})

\* The characters a shell reads from a word made of single-quoted parts and
\* backslash-escaped characters.
RECURSIVE ShellWord(_, _)
ShellWord(chars, quoted) ==
    IF chars = <<>> THEN <<>>
    ELSE IF Head(chars) = "'" THEN ShellWord(Tail(chars), ~quoted)
    ELSE IF quoted THEN <<Head(chars)>> \o ShellWord(Tail(chars), TRUE)
    ELSE IF Head(chars) = "\\" /\ Len(chars) >= 2
         THEN <<chars[2]>> \o ShellWord(SubSeq(chars, 3, Len(chars)), FALSE)
    ELSE <<Head(chars)>> \o ShellWord(Tail(chars), FALSE)

\* cmd is a type command whose argument reads as the literal `line`.
IsTypeOf(cmd, line) ==
    /\ Len(cmd) >= 5
    /\ SubSeq(cmd, 1, 3) = <<"xdotool", "type", "--">>
    /\ ShellWord(SubSeq(cmd, 4, Len(cmd)), FALSE) = line

ReturnKey == <<"xdotool", "key", "Return">>

C17_KeyMapping ==
    /\ \A name \in DOMAIN KeyTable : MapKey(MapKey(name)) = MapKey(name)
    /\ (driverCall.op = "keypress" /\ driverCall.returned) =>
        LET keys == driverCall.args.keys
            n == Len(keys)
            cmd == commands[1]
            Symbol(i) == cmd[2 * i + 1]
        IN  /\ Len(commands) = 1
            /\ Len(cmd) = IF n = 0 THEN 2 ELSE 2 * n + 1
            /\ SubSeq(cmd, 1, 2) = <<"xdotool", "key">>
            /\ \A i \in 1..(n - 1) : cmd[2 * i + 2] = "+"
            /\ \A i \in 1..n :
                /\ Symbol(i) = MapKey(keys[i])
                /\ MapKey(Symbol(i)) = Symbol(i)
                /\ keys[i] \notin DOMAIN KeyTable => Symbol(i) = keys[i]
                /\ keys[i] = "ENTER" => Symbol(i) = "Return"
                /\ keys[i] = "CTRL" => Symbol(i) = "ctrl"
                /\ keys[i] = "WIN" => Symbol(i) = "super"
                /\ \A j \in 1..n : keys[j] = keys[i] => Symbol(j) = Symbol(i)

\* C17 witness: the chord of WIN and a lower-case enter has been pressed as
\* one command.
C17_Witness ==
    /\ driverCall.op = "keypress"
    /\ driverCall.returned
    /\ driverCall.args.keys = <<"WIN", "enter">>
    /\ commands = <<<<"xdotool", "key", "super", "+", "enter">>>>

\* The ports a selection probed, and those of the ten from the preferred one
\* on that are free and whose probe did not raise.
Probed(d) == {probes[d][i].port : i \in 1..Len(probes[d])}

RaisedOn(d) == {probes[d][i].port : i \in Errors(probes[d])}

FoundFree(d) ==
    {q \in PreferredPort..(PreferredPort + 9) : q \notin inUse /\ q \notin RaisedOn(d)}

\* C18: a port selection probes at most 10 ports, the preferred one and its
\* successors in ascending order, each once; when it has returned and one of
\* the ten ports from the preferred one on is free (its probe, if made, not
\* having raised), the port returned is the lowest such port: it is not in
\* use, it is not below the preferred port, all ports below it were probed,
\* and it differs from the preferred port when that one is occupied.
C18_LowestFreePort ==
    \A d \in Drivers :
        /\ Len(probes[d]) <= 10
        /\ \A i \in 1..Len(probes[d]) : probes[d][i].port = PreferredPort + i - 1
        /\ (portPc[d] = "done" /\ FoundFree(d) # {}) =>
            /\ vnc_port[d] \in FoundFree(d)
            /\ \A q \in FoundFree(d) : vnc_port[d] <= q
            /\ vnc_port[d] \notin inUse
            /\ vnc_port[d] >= PreferredPort
            /\ \A q \in PreferredPort..vnc_port[d] : q \in Probed(d)
            /\ PreferredPort \in inUse => vnc_port[d] # PreferredPort

\* C18 witness: the preferred port and its successor are occupied, the probe
\* of the free port after them raised, and the selection returned a port
\* further up.
C18_Witness ==
    /\ portPc[1] = "done"
    /\ {PreferredPort, PreferredPort + 1} \subseteq inUse
    /\ PreferredPort + 2 \notin inUse
    /\ PreferredPort + 2 \in RaisedOn(1)
    /\ vnc_port[1] > PreferredPort + 2
    /\ vnc_port[1] \notin inUse

\* C19: a selection that returned without any probe finding a free port
\* returned the port of its last probe.
C19_FallbackIsLastTried ==
    \A d \in Drivers :
        (/\ portPc[d] = "done"
         /\ \A i \in 1..Len(probes[d]) : probes[d][i].outcome # "free")
        => vnc_port[d] = Last(probes[d]).port

\* C20: two drivers whose selections have both returned hold different ports.
C20_ExclusivePorts ==
    (portPc[1] = "done" /\ portPc[2] = "done") => vnc_port[1] # vnc_port[2]

\* ---------------------------------------------------- claims C21 to C30

\* Every action result in the buffer or in the input of a request.
AllResults == Results(items) \cup UNION {Results(requests[n].input) : n \in 1..Len(requests)}

CaptureFailed(result) == result.output.image_url[2] = ""

\* C21: a command that ends with a non-zero exit never ends the submission:
\* no error that reached the handler is that of a failed command. When the
\* capture after an action failed, the result carries the empty image, the
\* action was yielded, and once the checkpoint of that exchange is passed
\* the result has left in the next remote request (the next loop exchange,
\* or the flush when a stop was read) or stands in the buffer for it.
C21_CommandFailureNotFatal ==
    /\ \A f \in Range(failure) : f.error # CommandError
    /\ \A n \in 1..Len(requests) : \A i \in 1..Len(requests[n].output) :
        LET call == requests[n].output[i] IN
        IsCall(call) =>
            \A result \in AllResults :
                (IsResultOf(result, call.call_id) /\ CaptureFailed(result)) =>
                    /\ \E k \in 1..Len(events) :
                        /\ HasAttr(events[k], "action")
                        /\ events[k] = ActionEvent(call)
                    /\ Len(stopPolls) >= n =>
                        \/ /\ Len(requests) = n
                           /\ pc = "call"
                           /\ result \in Range(items)
                        \/ /\ Len(requests) > n
                           /\ requests[n + 1].kind =
                                 (IF stopPolls[n].value THEN "flush" ELSE "loop")
                           /\ result \in Range(requests[n + 1].input)

\* C21 witness: the capture after the first action failed and its result,
\* with the empty image, left in the second loop exchange.
C21_Witness ==
    /\ Len(requests) = 2
    /\ requests[2].kind = "loop"
    /\ \E result \in Results(requests[2].input) : CaptureFailed(result)
    /\ failure = <<>>

\* The exchanges that ended in a RemoteCallError.
RemoteCallErrors == {f \in Range(failure) : f.kind \in {"transport", "empty"}}

\* C25: a failed exchange leaves the handle unchanged: after a transport
\* error or a response with no output, last_response_id is the handle the
\* failed request carried.
C25_FailedExchangeKeepsHandle ==
    \A f \in RemoteCallErrors :
        last_response_id = requests[f.requests].previous_response_id

\* The positions in the driver's log of the dispatch of an action request
\* and of the screenshot taken after it.
DispatchedAt(call_id) ==
    {j \in 1..Len(driverLog) :
        /\ driverLog[j].call_id = call_id
        /\ \A i \in 1..(j - 1) : driverLog[i].call_id # call_id}

CapturedAt(call_id) ==
    {k \in 1..Len(driverLog) :
        /\ driverLog[k].call_id = call_id
        /\ driverLog[k].op = "screenshot"
        /\ \E j \in DispatchedAt(call_id) : j < k}

\* C26: the policy is consulted only after the action was dispatched and the
\* follow-up screenshot captured: every callback call made for an action
\* request finds the request's driver operation and, after it, its screenshot
\* in the driver's log, and when the acknowledgement was refused both were
\* there when the error reached the handler.
C26_ConsultedAfterDispatch ==
    /\ \A i \in 1..Len(consulted) :
        /\ DispatchedAt(consulted[i].call_id) # {}
        /\ CapturedAt(consulted[i].call_id) # {}
    /\ \A f \in Range(failure) :
        f.kind = "safety" =>
            \E i \in 1..Len(consulted) :
                /\ ~consulted[i].answer
                /\ \E k \in CapturedAt(consulted[i].call_id) : k <= f.driver

\* C26 witness: an acknowledgement was refused.
C26_Witness ==
    /\ \E i \in 1..Len(consulted) : ~consulted[i].answer
    /\ \E f \in Range(failure) : f.kind = "safety"
    /\ Len(driverLog) >= 2

Downs == {i \in 1..Len(lifeLog) : lifeLog[i].event = "down"}

\* C22: the environment is torn down on scope exit only when shutdown was
\* configured and this driver instance launched the environment it tears
\* down; with the default configuration no teardown is ever issued; and the
\* environment found running at the first entry is never torn down.
C22_TeardownOnlyOfOwnLaunch ==
    /\ \A i \in Downs :
        /\ shutdown_on_exit
        /\ lifeLog[i].container # <<>> => lifeLog[i].container[1] = "driver"
    /\ ~shutdown_on_exit => Downs = {}
    /\ firstFound # <<>> => \A i \in Downs : lifeLog[i].container # firstFound

EntryFailures == {i \in 1..Len(lifeLog) : lifeLog[i].event = "entry failed"}

\* C23: the health loop makes at most ten polls and is left after the tenth;
\* whatever the polls report, entry fails only with the launch error, right
\* after a launch command that failed, or with the not-running error, when
\* the container is not listed; exhausted polls mark the container as started
\* and go on to the listing; and every driver operation lies inside a
\* with-block whose entry returned.
C23_HealthPollingBounded ==
    /\ polls <= HealthAttempts
    /\ lifePc = "polling" => polls < HealthAttempts
    /\ \A i \in EntryFailures :
        \/ /\ lifeLog[i].detail = LaunchError
           /\ i > 1
           /\ lifeLog[i - 1].event = "up"
           /\ lifeLog[i - 1].detail = <<"failed">>
        \/ /\ lifeLog[i].detail = NotRunningError
           /\ lifeLog[i].container = <<>>
    /\ (polls = HealthAttempts /\ lifePc # "out") => container_started_by_us
    /\ \A i \in 1..Len(lifeLog) :
        lifeLog[i].event = "op" =>
            \E j \in 1..(i - 1) :
                /\ lifeLog[j].event = "entered"
                /\ lifeLog[j].scope = lifeLog[i].scope

\* C23 witness: ten polls, none healthy, and the with-block was entered and
\* the driver used.
C23_Witness ==
    /\ polls = HealthAttempts
    /\ lastStatus # <<"healthy">>
    /\ lifePc = "in"
    /\ OperatedIn(scopes)

\* No invocation was accepted while another was between its start and its
\* return: the submissions followed one another.
Serial == \A t \in Submissions : chat[t].alone

\* C24: when the submissions follow one another, every remote request, loop
\* exchange or flush, of either submission carries the handle returned by the
\* latest successful exchange made before it since creation or reset, or
\* none when there was no such exchange.
C24_HandleOfLastSuccess ==
    Serial =>
        \A n \in 1..Len(turns) : turns[n].previous_response_id = turns[n].expected

\* The result of the action request emitted in turn k has reached the remote
\* model in a request made before request n.
Delivered(k, n) ==
    \E m \in (k + 1)..(n - 1) : k \in turns[m].results /\ turns[m].status # "failed"

\* C27: when a new submission begins after the previous one has returned,
\* the turn its first request refers to has no outstanding action request:
\* if that turn emitted one, its result was delivered in a request made since.
C27_NoOutstandingRequest ==
    \A n \in 1..Len(turns) :
        (Serial /\ turns[n].first /\ turns[n].previous_response_id # None) =>
            LET k == turns[n].previous_response_id[2] IN
            turns[k].call => Delivered(k, n)

\* C28: the host serializes the use of the agent and the driver: at most one
\* invocation is inside run_conversation at any time, and a rejected
\* invocation has made no remote request.
C28_OneSubmissionAtATime ==
    /\ Cardinality({t \in Submissions : chat[t].pc \in Running}) <= 1
    /\ \A n \in 1..Len(turns) : chat[turns[n].by].pc # "rejected"

\* The invocations that have cleared the stop flag at their start and have
\* not reached their finally clause.
Started == {"mark", "enter"} \cup Running

\* C29: a stop request never carries over: when the submissions follow one
\* another, the flag is set only by a request made while a submission was
\* processing, and a submission that has started finds the flag set only by
\* a request that was made while it was processing.
C29_StopDoesNotCarryOver ==
    Serial =>
        /\ stop_requested => stopper.saw # {}
        /\ \A t \in Submissions :
            (chat[t].pc \in Started /\ stop_requested) => t \in stopper.saw

\* C30: after reset_chat_history the first remote request of the next
\* submission, begun after the one in progress has returned, carries no
\* handle.
C30_ResetClearsHandle ==
    \A n \in 1..Len(turns) :
        (Serial /\ turns[n].first /\ chat[turns[n].by].next) =>
            turns[n].previous_response_id = None

====
